---- MODULE Spec2Model ----
(***************************************************************************)
(* A model of the wiki-server core: the background pipeline of             *)
(* app/services/analysis_service.py, the index build, change detector and  *)
(* cached searcher of app/services/rag_service.py, and project deletion of *)
(* app/services/project_service.py.                                        *)
(*                                                                         *)
(* Spec / FairSpec : the pipeline orchestrator (launch de-duplication,     *)
(*                   stage sequence, deletion racing with a run).          *)
(* BuildSpec       : the embedding phase of one project: change detector   *)
(*                   and index build over a source tree that is edited     *)
(*                   between runs.                                         *)
(* SearchSpec      : the cached searcher of one project querying while the *)
(*                   index is rebuilt.                                     *)
(* GenSpec         : one pipeline run whose site map has more leaves than  *)
(*                   the generation pool has workers.                      *)
(* TreeSpec        : create_wiki_structure over any small storage tree.    *)
(* RerunSpec       : two pipeline runs (index refresh, then site map) over *)
(*                   a source tree that is not edited.                     *)
(* CacheSpec       : the searcher cache of two projects used by two        *)
(*                   threads, with clear_project_searcher.                 *)
(* OutSpec         : generate_wiki_for_project writing the output tree of  *)
(*                   a site map, run after run, and the read-back of       *)
(*                   fill_tree_with_content.                               *)
(* ParSpec         : launches and runs of two projects, with the regions   *)
(*                   held under _RUNNING_LOCK as separate steps.           *)
(* TokSpec         : process_leaf reading one source file and cutting it   *)
(*                   to the token ceiling before the agent is called.      *)
(* ChunkSpec       : _process_file choosing between the structural and the *)
(*                   sentence chunker for one file.                        *)
(* Each specification leaves the variables of the other parts unchanged.   *)
(***************************************************************************)
EXTENDS Integers, Sequences, FiniteSets, TLC

\* ------------------------------------------------------------------ bounds
NumProjects == 2
MaxLaunches == 2
MaxLeaves == 2
PoolLeaves == 9

MaxContent == 2
MaxEdits == 2
MaxRefresh == 2
MaxClock == 2
MaxQueries == 2
MaxTreeCalls == 2
MaxInstances == 3
MaxClears == 1
MaxBody == 1
MaxOutRuns == 2
MaxTextLen == 5
MaxSpans == 2
MAX_AGENT_TOKENS == 3       \* the ceiling, scaled to the texts of the model

MAX_WORKER_AGENTS == 8
EMBED_BATCH_SIZE == 2

Projects == 1..NumProjects
Calls == 1..MaxLaunches
Leaves == 1..(IF MaxLeaves > PoolLeaves THEN MaxLeaves ELSE PoolLeaves)
OverviewLeaf == 1

\* ------------------------------------------------------------------ state
VARIABLES
    RUNNING_PIPELINES,  \* analysis_service._RUNNING_PIPELINES (guarded by _RUNNING_LOCK)
    project,            \* the Project row of each id: exists, wiki_status, start/end time
    deleting,           \* progress of delete_project for each id (0 = not called)
    disk,               \* per project: storage dir, analysis dir, wiki_tree.json, output files
    calls,              \* launch calls of each project still to be issued by the callers
    run,                \* per project and launch call: the runner thread's position and locals
    items               \* per project and launch call: the futures of generate_wiki_for_project

pipeVars == <<RUNNING_PIPELINES, project, deleting, disk, calls, run, items>>

VARIABLES
    src,        \* the source tree: the content of each path (Absent, whitespace, or text)
    faiss,      \* rag/faiss.index
    meta,       \* rag/index_meta.json
    status,     \* rag/status.json
    build,      \* the thread in the embedding phase: position and locals
    nrefresh,   \* embedding phases started so far
    edits,      \* edits of the source tree still to come
    now         \* the file system's clock, in half seconds

buildVars == <<src, faiss, meta, status, build, nrefresh, edits, now>>

VARIABLES
    SEARCHERS,       \* rag_service._SEARCHERS: the cached _ProjectSearcher of the project
    SEARCHERS_LOCK,  \* the thread holding rag_service._SEARCHERS_LOCK, or "free"
    searcher_lock,   \* the thread holding the cached searcher's _lock, or "free"
    q,               \* each querying thread: position in search_project and locals
    queries          \* queries still to be issued

searchVars == <<SEARCHERS, SEARCHERS_LOCK, searcher_lock, q, queries>>

VARIABLES
    root,        \* project_storage/<id>: the kind of each entry, or NoDir
    wiki_tree,   \* the site map create_wiki_structure returned last
    prev_tree,   \* the site map it returned the time before
    ncalls       \* calls of create_wiki_structure so far

treeVars == <<root, wiki_tree, prev_tree, ncalls>>

VARIABLES
    registry,       \* _SEARCHERS over several projects: the cached instance of each id, or 0
    registry_lock,  \* the thread holding _SEARCHERS_LOCK, or "free"
    inst_of,        \* the project of each _ProjectSearcher created so far (0 = not created)
    inst_lock,      \* the thread holding each instance's _lock, or "free"
    built,          \* whether the index pair of each project is on disk
    th,             \* each thread in search_project: position, project, instance
    made,           \* instances created for each project since it was last cleared
    clears          \* clear_project_searcher calls so far

cacheVars == <<registry, registry_lock, inst_of, inst_lock, built, th, made, clears>>

VARIABLES
    smap,        \* the site map generate_wiki_for_project was called with
    wiki_dir,    \* project_wiki/<id>: what is at each output path
    leaf_state,  \* the future of each leaf of the site map
    gen_body,    \* the text the generation capability returns in this run
    gen_failed,  \* whether a generation call of this run raised
    out_pc,      \* idle, pool (leaves in process), returned, read (read back)
    readback,    \* what fill_tree_with_content returned for each leaf
    out_runs     \* generation stages started so far

outVars == <<smap, wiki_dir, leaf_state, gen_body, gen_failed, out_pc, readback, out_runs>>

VARIABLES
    RUNNING_LOCK   \* analysis_service._RUNNING_LOCK: <<region, project, call>> of its holder

lockVars == <<RUNNING_LOCK>>

VARIABLES
    source_file,   \* the backing file of a leaf: missing, not UTF-8, or its text
    file_content,  \* process_leaf's local file_content
    agent_input,   \* the file_content the generation capability was called with
    leaf_pc        \* process_leaf's position: read, encode, call, done, failed

tokVars == <<source_file, file_content, agent_input, leaf_pc>>

VARIABLES
    chunk_file,     \* the file _process_file is called with and what the chunkers make of it
    spans,          \* _process_file's local spans
    chunks,         \* the chunks _process_file returns
    used_fallback,  \* whether chunk_text_sentences was called
    chunk_pc        \* _process_file's position

chunkVars == <<chunk_file, spans, chunks, used_fallback, chunk_pc>>

unitVars == <<outVars, lockVars, tokVars, chunkVars>>

vars == <<pipeVars, buildVars, searchVars, treeVars, cacheVars, unitVars>>

notPipeVars == <<buildVars, searchVars, treeVars, cacheVars, unitVars>>
notBuildVars == <<pipeVars, searchVars, treeVars, cacheVars, unitVars>>
notSearchVars == <<pipeVars, buildVars, treeVars, cacheVars, unitVars>>
notTreeVars == <<pipeVars, buildVars, searchVars, cacheVars, unitVars>>
notCacheVars == <<pipeVars, buildVars, searchVars, treeVars, unitVars>>
notOutVars == <<pipeVars, buildVars, searchVars, treeVars, cacheVars, lockVars, tokVars, chunkVars>>
notLockVars == <<pipeVars, buildVars, searchVars, treeVars, cacheVars, outVars, tokVars, chunkVars>>
notTokVars == <<pipeVars, buildVars, searchVars, treeVars, cacheVars, outVars, lockVars, chunkVars>>
notChunkVars == <<pipeVars, buildVars, searchVars, treeVars, cacheVars, outVars, lockVars, tokVars>>

\* ------------------------------------------------------------- pipeline
NoRow == [exists |-> FALSE, wiki_status |-> "none", started |-> FALSE, ended |-> FALSE]

NewRow(s) == [exists |-> TRUE, wiki_status |-> s, started |-> FALSE, ended |-> FALSE]

\* A launch call that was not made yet, and the locals of a thread that has exited.
FreshRun(at) ==
    [pc |-> at, embedding_failed |-> FALSE, ok1 |-> FALSE, ok2 |-> FALSE,
     refreshed |-> FALSE, mapWritten |-> FALSE, outWritten |-> FALSE,
     statusWrites |-> 0, wroteGenerated |-> FALSE, delAt |-> "none",
     raised |-> FALSE, genReturned |-> FALSE]

NoItems == [l \in Leaves |-> "none"]

ActivePcs ==
    {"check1", "refresh", "check2", "an_get", "an_commit", "an_refresh", "tree",
     "gen_mkdir", "gen_pool", "commit_generated", "finally"}

Active(p, k) == run[p][k].pc \in ActivePcs

ActiveRuns(p) == {k \in Calls : Active(p, k)}

SetRun(p, k, r) == run' = [run EXCEPT ![p][k] = r]

\* The k-th launch call of a project is the next one to be issued.
NextCall(p, k) ==
    /\ run[p][k].pc = "idle"
    /\ \A j \in Calls : j < k => run[p][j].pc # "idle"
    /\ calls[p] > 0

\* start_project_pipeline_background: the region under _RUNNING_LOCK and the
\* thread start that follows an accepted launch.
LaunchAccepts_nocheck(p) == TRUE

LaunchAccepts_exclusive(p) == RUNNING_PIPELINES = {}

LaunchAccepts(p) == p \notin RUNNING_PIPELINES

start_project_pipeline_background(p, k) ==
    /\ NextCall(p, k)
    /\ calls' = [calls EXCEPT ![p] = @ - 1]
    /\ IF LaunchAccepts(p)
       THEN /\ RUNNING_PIPELINES' = RUNNING_PIPELINES \cup {p}
            /\ SetRun(p, k, FreshRun("check1"))
       ELSE /\ SetRun(p, k, FreshRun("skipped"))
            /\ UNCHANGED RUNNING_PIPELINES
    /\ UNCHANGED <<project, deleting, disk, items>>
    /\ UNCHANGED notPipeVars

\* A finally block that leaves the set as it is.
discard_nothing(set, pid) == set

\* set.discard
discard(set, pid) == set \ {pid}

\* _runner's finally block: discard the id under the lock; the thread exits.
runner_finally(p, k) ==
    /\ run[p][k].pc = "finally"
    /\ RUNNING_PIPELINES' = discard(RUNNING_PIPELINES, p)
    /\ SetRun(p, k, FreshRun("done"))
    /\ items' = [items EXCEPT ![p][k] = NoItems]
    /\ UNCHANGED <<project, deleting, disk, calls>>
    /\ UNCHANGED notPipeVars

\* start_project_pipeline, first existence check.
pipeline_check1(p, k) ==
    /\ run[p][k].pc = "check1"
    /\ IF project[p].exists
       THEN SetRun(p, k, [run[p][k] EXCEPT !.pc = "refresh", !.ok1 = TRUE])
       ELSE SetRun(p, k, [run[p][k] EXCEPT !.pc = "finally"])
    /\ UNCHANGED <<RUNNING_PIPELINES, project, deleting, disk, calls, items>>
    /\ UNCHANGED notPipeVars

\* start_project_pipeline, the embedding phase: embeddings_up_to_date, else
\* build_embeddings_for_project; every exception is caught and only sets
\* embedding_failed.  The outcome is an input of this specification.
RefreshOutcomes == {"skipped", "rebuilt", "build_failed", "raised"}

pipeline_refresh(p, k) ==
    /\ run[p][k].pc = "refresh"
    /\ \E o \in RefreshOutcomes :
        /\ o = "skipped" => disk[p].analysis
        /\ SetRun(p, k, [run[p][k] EXCEPT !.pc = "check2", !.refreshed = TRUE,
                                          !.embedding_failed = (o = "raised")])
        /\ disk' = [disk EXCEPT ![p].analysis = @ \/ o \in {"rebuilt", "build_failed"}]
    /\ UNCHANGED <<RUNNING_PIPELINES, project, deleting, calls, items>>
    /\ UNCHANGED notPipeVars

\* start_project_pipeline, the existence re-check before the analysis.
pipeline_check2(p, k) ==
    /\ run[p][k].pc = "check2"
    /\ IF project[p].exists
       THEN SetRun(p, k, [run[p][k] EXCEPT !.pc = "an_get", !.ok2 = TRUE])
       ELSE SetRun(p, k, [run[p][k] EXCEPT !.pc = "finally"])
    /\ UNCHANGED <<RUNNING_PIPELINES, project, deleting, disk, calls, items>>
    /\ UNCHANGED notPipeVars

\* The same load with the return of the not-found branch left out.
analysis_get_noreturn(p, k) ==
    /\ run[p][k].pc = "an_get"
    /\ IF project[p].exists
       THEN SetRun(p, k, [run[p][k] EXCEPT !.pc = "an_commit"])
       ELSE SetRun(p, k, [run[p][k] EXCEPT !.pc = "tree"])
    /\ UNCHANGED <<RUNNING_PIPELINES, project, deleting, disk, calls, items>>
    /\ UNCHANGED notPipeVars

\* start_analysis_for_project: db.get(Project, project_id).
analysis_get(p, k) ==
    /\ run[p][k].pc = "an_get"
    /\ IF project[p].exists
       THEN SetRun(p, k, [run[p][k] EXCEPT !.pc = "an_commit"])
       ELSE SetRun(p, k, [run[p][k] EXCEPT !.pc = "finally"])
    /\ UNCHANGED <<RUNNING_PIPELINES, project, deleting, disk, calls, items>>
    /\ UNCHANGED notPipeVars

\* start_analysis_for_project: status ANALYZING and the start time are committed.
\* The UPDATE of a row that is gone matches no row and the commit raises.
analysis_commit_analyzing(p, k) ==
    /\ run[p][k].pc = "an_commit"
    /\ IF project[p].exists
       THEN /\ project' = [project EXCEPT ![p].wiki_status = "analyzing",
                                          ![p].started = TRUE]
            /\ SetRun(p, k, [run[p][k] EXCEPT !.pc = "an_refresh",
                                              !.statusWrites = @ + 1])
       ELSE /\ SetRun(p, k, [run[p][k] EXCEPT !.pc = "finally"])
            /\ UNCHANGED project
    /\ UNCHANGED <<RUNNING_PIPELINES, deleting, disk, calls, items>>
    /\ UNCHANGED notPipeVars

\* start_analysis_for_project: db.refresh(project) raises when the row is gone.
analysis_refresh(p, k) ==
    /\ run[p][k].pc = "an_refresh"
    /\ IF project[p].exists
       THEN SetRun(p, k, [run[p][k] EXCEPT !.pc = "tree"])
       ELSE SetRun(p, k, [run[p][k] EXCEPT !.pc = "finally"])
    /\ UNCHANGED <<RUNNING_PIPELINES, project, deleting, disk, calls, items>>
    /\ UNCHANGED notPipeVars

\* create_wiki_structure: the overview leaf, then the files of the storage dir.
create_wiki_structure(p) ==
    IF disk[p].storage THEN 1..(1 + disk[p].files) ELSE {OverviewLeaf}

\* The same stage with the exception of the try block escaping the function.
analysis_tree_uncaught(p, k) ==
    /\ run[p][k].pc = "tree"
    /\ \/ /\ disk[p].analysis
          /\ disk' = [disk EXCEPT ![p].tree = TRUE]
          /\ SetRun(p, k, [run[p][k] EXCEPT !.pc = "gen_mkdir", !.mapWritten = TRUE])
       \/ /\ UNCHANGED disk
          /\ SetRun(p, k, [run[p][k] EXCEPT !.pc = "finally"])
    /\ UNCHANGED <<RUNNING_PIPELINES, project, deleting, calls, items>>
    /\ UNCHANGED notPipeVars

\* start_analysis_for_project: build the site map and write wiki_tree.json.  The
\* write raises when the analysis directory is gone; any exception of the try
\* block is caught and the run goes on to the final commit.
analysis_tree(p, k) ==
    /\ run[p][k].pc = "tree"
    /\ \/ /\ disk[p].analysis
          /\ disk' = [disk EXCEPT ![p].tree = TRUE]
          /\ SetRun(p, k, [run[p][k] EXCEPT !.pc = "gen_mkdir", !.mapWritten = TRUE])
       \/ /\ UNCHANGED disk
          /\ SetRun(p, k, [run[p][k] EXCEPT !.pc = "commit_generated", !.raised = TRUE])
    /\ UNCHANGED <<RUNNING_PIPELINES, project, deleting, calls, items>>
    /\ UNCHANGED notPipeVars

\* generate_wiki_for_project: wiki_dir.mkdir, _collect_leaf_nodes, and the eager
\* submission of every leaf to the pool.
generate_submit(p, k) ==
    /\ run[p][k].pc = "gen_mkdir"
    /\ \/ /\ disk' = [disk EXCEPT ![p].wikidir = TRUE]
          /\ items' = [items EXCEPT ![p][k] =
                          [l \in Leaves |->
                              IF l \in create_wiki_structure(p) THEN "queued" ELSE "none"]]
          /\ SetRun(p, k, [run[p][k] EXCEPT !.pc = "gen_pool"])
       \/ /\ UNCHANGED <<disk, items>>
          /\ SetRun(p, k, [run[p][k] EXCEPT !.pc = "commit_generated", !.raised = TRUE])
    /\ UNCHANGED <<RUNNING_PIPELINES, project, deleting, calls>>
    /\ UNCHANGED notPipeVars

Running(p, k) == {l \in Leaves : items[p][k][l] = "running"}

\* ThreadPoolExecutor(max_workers=MAX_WORKER_AGENTS): a worker is free.
WorkerFree_unbounded(p, k) == TRUE

WorkerFree(p, k) == Cardinality(Running(p, k)) < MAX_WORKER_AGENTS

\* A pool worker takes the item at the head of the executor's work queue,
\* which holds the items in the order they were submitted.
process_leaf_start(p, k, l) ==
    /\ run[p][k].pc = "gen_pool"
    /\ items[p][k][l] = "queued"
    /\ \A j \in Leaves : j < l => items[p][k][j] # "queued"
    /\ WorkerFree(p, k)
    /\ items' = [items EXCEPT ![p][k][l] = "running"]
    /\ UNCHANGED <<RUNNING_PIPELINES, project, deleting, disk, calls, run>>
    /\ UNCHANGED notPipeVars

\* process_leaf: the try block covers the whole body; an exception is logged
\* and the future completes without one.
LeafOutcome_uncaught(raises) == IF raises THEN "escaped" ELSE "ok"

LeafOutcome(raises) == IF raises THEN "failed" ELSE "ok"

\* process_leaf: generate and write the output file (its parent directories are
\* created), or raise; the exception is caught inside process_leaf.
process_leaf_finish(p, k, l) ==
    /\ run[p][k].pc = "gen_pool"
    /\ items[p][k][l] = "running"
    /\ \/ /\ items' = [items EXCEPT ![p][k][l] = LeafOutcome(FALSE)]
          /\ disk' = [disk EXCEPT ![p].wikidir = TRUE, ![p].wiki = @ \cup {l}]
          /\ SetRun(p, k, [run[p][k] EXCEPT !.outWritten = TRUE])
       \/ /\ items' = [items EXCEPT ![p][k][l] = LeafOutcome(TRUE)]
          /\ UNCHANGED <<disk, run>>
    /\ UNCHANGED <<RUNNING_PIPELINES, project, deleting, calls>>
    /\ UNCHANGED notPipeVars

AllFinished(p, k) ==
    \A l \in Leaves : items[p][k][l] \in {"none", "ok", "failed", "escaped"}

\* future.result() in the as_completed loop re-raises what a future raised.
Escaped(p, k) == \E l \in Leaves : items[p][k][l] = "escaped"

PoolJoined_nowait(p, k) == TRUE

\* generate_wiki_for_project returns: the as_completed loop and the executor's
\* exit have waited for every future.
PoolJoined(p, k) == AllFinished(p, k)

generate_join(p, k) ==
    /\ run[p][k].pc = "gen_pool"
    /\ PoolJoined(p, k)
    /\ SetRun(p, k, [run[p][k] EXCEPT !.pc = "commit_generated",
                                      !.raised = Escaped(p, k),
                                      !.genReturned = ~Escaped(p, k)])
    /\ UNCHANGED <<RUNNING_PIPELINES, project, deleting, disk, calls, items>>
    /\ UNCHANGED notPipeVars

\* start_analysis_for_project: the status set after the try block, whether or
\* not its except branch ran.
ResolvedStatus_failed(raised) == IF raised THEN "failed" ELSE "generated"

ResolvedStatus(raised) == "generated"

\* start_analysis_for_project: status GENERATED and the end time are committed.
analysis_commit_generated(p, k) ==
    /\ run[p][k].pc = "commit_generated"
    /\ IF project[p].exists
       THEN /\ project' = [project EXCEPT ![p].wiki_status =
                                              ResolvedStatus(run[p][k].raised),
                                          ![p].ended = TRUE]
            /\ SetRun(p, k, [run[p][k] EXCEPT !.pc = "finally",
                                              !.statusWrites = @ + 1,
                                              !.wroteGenerated = TRUE])
       ELSE /\ SetRun(p, k, [run[p][k] EXCEPT !.pc = "finally"])
            /\ UNCHANGED project
    /\ UNCHANGED <<RUNNING_PIPELINES, deleting, disk, calls, items>>
    /\ UNCHANGED notPipeVars

\* delete_project: the row is deleted and committed first.
delete_project_record(p) ==
    /\ deleting[p] = 0
    /\ project[p].exists
    /\ project' = [project EXCEPT ![p] = NoRow]
    /\ deleting' = [deleting EXCEPT ![p] = 1]
    /\ run' = [run EXCEPT ![p] =
                  [k \in Calls |->
                      IF Active(p, k) THEN [run[p][k] EXCEPT !.delAt = run[p][k].pc]
                      ELSE run[p][k]]]
    /\ UNCHANGED <<RUNNING_PIPELINES, disk, calls, items>>
    /\ UNCHANGED notPipeVars

\* delete_project: then the storage, analysis and wiki directories are removed,
\* one rmtree after the other.
delete_project_dirs(p) ==
    /\ deleting[p] \in 1..3
    /\ deleting' = [deleting EXCEPT ![p] = @ + 1]
    /\ disk' = [disk EXCEPT ![p] =
                  CASE deleting[p] = 1 -> [@ EXCEPT !.storage = FALSE]
                    [] deleting[p] = 2 -> [@ EXCEPT !.analysis = FALSE, !.tree = FALSE]
                    [] OTHER -> [@ EXCEPT !.wikidir = FALSE, !.wiki = {}]]
    /\ UNCHANGED <<RUNNING_PIPELINES, project, calls, run, items>>
    /\ UNCHANGED notPipeVars


\* ---------------------------------------------------------- index build
Paths == {"a.py", "b.md"}
Absent == -1
Whitespace == 0
Contents == Whitespace..MaxContent

\* file_sha256: the digest of the bytes read; distinct contents have distinct
\* digests.  NoSha is the empty string of a missing "sha256" key.
NoSha == 0
file_sha256(c) == c + 1

\* get_project_files: the files found under the storage directory.
get_project_files == {f \in Paths : src[f] # Absent}

\* A manifest maps a path to its digest; NoKey marks a path that is no key.
NoKey == -1
Keys(m) == {f \in Paths : m[f] # NoKey}
EmptyManifest == [f \in Paths |-> NoKey]

\* The spans the chunkers give a text: a text c has c non-blank spans.
NumSpans(c) == c

\* _process_file: chunk texts and chunk records of one file, in step; a
\* whitespace-only file yields none.
process_file_texts(f) ==
    IF src[f] = Absent \/ src[f] = Whitespace THEN <<>>
    ELSE [n \in 1..NumSpans(src[f]) |-> <<f, n>>]

\* The record of a chunk appended only after the first chunk of the file.
process_file_metas_late(f) ==
    IF src[f] = Absent \/ src[f] = Whitespace THEN <<>>
    ELSE [n \in 1..(NumSpans(src[f]) - 1) |-> [file |-> f, span |-> n + 1]]

process_file_metas(f) ==
    IF src[f] = Absent \/ src[f] = Whitespace THEN <<>>
    ELSE [n \in 1..NumSpans(src[f]) |-> [file |-> f, span |-> n]]

NoFaiss == [exists |-> FALSE, id |-> 0, rows |-> <<>>, mtime |-> 0]
NoMeta == [state |-> "absent", id |-> 0, items |-> <<>>, count |-> 0,
           files |-> EmptyManifest, mtime |-> 0]
NoStatus == [status |-> "pending", vectors |-> -1, error |-> FALSE]

FreshBuild ==
    [pc |-> "idle", id |-> 0, metaAtStart |-> "absent", saidUpToDate |-> FALSE,
     existing_items |-> <<>>, existing_files |-> EmptyManifest,
     current_files |-> EmptyManifest, pending |-> {},
     new_texts |-> <<>>, new_metas |-> <<>>, i |-> 0, index |-> <<>>,
     index_none |-> TRUE, batchFailed |-> FALSE, raised |-> FALSE, outcome |-> "none"]

BuildIdle ==
    /\ src = [f \in Paths |-> Absent]
    /\ faiss = NoFaiss
    /\ meta = NoMeta
    /\ status = NoStatus
    /\ build = FreshBuild
    /\ nrefresh = 0
    /\ edits = 0
    /\ now = 0

\* embeddings_up_to_date: the persisted manifest against the scanned tree.
ItemFiles == {meta.items[n].file : n \in 1..Len(meta.items)}

embeddings_up_to_date_nokeys ==
    IF meta.state = "absent" THEN FALSE
    ELSE IF meta.state = "corrupt" THEN FALSE
    ELSE IF Keys(meta.files) # {}
         THEN \A f \in Keys(meta.files) :
                 src[f] # Absent /\ file_sha256(src[f]) = meta.files[f]
         ELSE IF \E f \in ItemFiles : src[f] = Absent \/ file_sha256(src[f]) # NoSha
              THEN FALSE
              ELSE ItemFiles = get_project_files

embeddings_up_to_date ==
    IF meta.state = "absent" THEN FALSE
    ELSE IF meta.state = "corrupt" THEN FALSE
    ELSE IF Keys(meta.files) # {}
         THEN IF Keys(meta.files) # get_project_files THEN FALSE
              ELSE \A f \in Keys(meta.files) :
                      src[f] # Absent /\ file_sha256(src[f]) = meta.files[f]
         ELSE IF \E f \in ItemFiles : src[f] = Absent \/ file_sha256(src[f]) # NoSha
              THEN FALSE
              ELSE ItemFiles = get_project_files

\* _write_status
write_status(st, v, err) == status' = [status |-> st, vectors |-> v, error |-> err]

\* start_project_pipeline, the embedding phase: skip the rebuild when the
\* detector says up to date, else enter build_embeddings_for_project.
refresh_begin ==
    /\ build.pc = "idle"
    /\ nrefresh < MaxRefresh
    /\ nrefresh' = nrefresh + 1
    /\ IF embeddings_up_to_date
       THEN build' = [FreshBuild EXCEPT !.pc = "done", !.id = nrefresh + 1,
                                        !.metaAtStart = meta.state,
                                        !.saidUpToDate = TRUE, !.outcome = "skipped"]
       ELSE build' = [FreshBuild EXCEPT !.pc = "b_start", !.id = nrefresh + 1,
                                        !.metaAtStart = meta.state]
    /\ UNCHANGED <<src, faiss, meta, status, edits, now>>
    /\ UNCHANGED notBuildVars

\* build_embeddings_for_project: status "embedding" is written first.
build_start ==
    /\ build.pc = "b_start"
    /\ write_status("embedding", -1, FALSE)
    /\ build' = [build EXCEPT !.pc = "b_prev"]
    /\ UNCHANGED <<src, faiss, meta, nrefresh, edits, now>>
    /\ UNCHANGED notBuildVars

\* build_embeddings_for_project: the previous metadata is read when the file
\* exists; json.load raises on a file that does not parse.
build_read_prev ==
    /\ build.pc = "b_prev"
    /\ build' = CASE meta.state = "corrupt" -> [build EXCEPT !.pc = "b_except"]
                  [] meta.state = "ok" ->
                        [build EXCEPT !.pc = "b_scan",
                                      !.existing_items = meta.items,
                                      !.existing_files = meta.files]
                  [] OTHER -> [build EXCEPT !.pc = "b_scan"]
    /\ UNCHANGED <<src, faiss, meta, status, nrefresh, edits, now>>
    /\ UNCHANGED notBuildVars

\* build_embeddings_for_project: scan and fingerprint the tree, and decide.
ScanManifest == [f \in Paths |-> IF src[f] = Absent THEN NoKey ELSE file_sha256(src[f])]

BuildUpToDate(cur) ==
    LET existing_set == Keys(build.existing_files)
        current_set == Keys(cur)
        deletions == existing_set \ current_set # {}
        additions == current_set \ existing_set # {}
        changes == \E f \in current_set \cap existing_set : build.existing_files[f] # cur[f]
    IN  meta.state # "absent" /\ ~deletions /\ ~additions /\ ~changes

build_scan ==
    /\ build.pc = "b_scan"
    /\ IF BuildUpToDate(ScanManifest)
       THEN /\ write_status("ready", Len(build.existing_items), FALSE)
            /\ build' = [build EXCEPT !.pc = "done", !.current_files = ScanManifest,
                                      !.outcome = "unchanged"]
       ELSE /\ build' = [build EXCEPT !.pc = "b_extract", !.current_files = ScanManifest,
                                      !.pending = get_project_files]
            /\ UNCHANGED status
    /\ UNCHANGED <<src, faiss, meta, nrefresh, edits, now>>
    /\ UNCHANGED notBuildVars

\* build_embeddings_for_project: the futures of _process_file are merged in the
\* order they complete; a future whose chunker raised re-raises in result().
build_merge(f) ==
    /\ build.pc = "b_extract"
    /\ f \in build.pending
    /\ \/ build' = [build EXCEPT !.pending = @ \ {f},
                                 !.new_texts = @ \o process_file_texts(f),
                                 !.new_metas = @ \o process_file_metas(f)]
       \/ /\ src[f] > Whitespace
          /\ build' = [build EXCEPT !.pc = "b_except", !.raised = TRUE]
    /\ UNCHANGED <<src, faiss, meta, status, nrefresh, edits, now>>
    /\ UNCHANGED notBuildVars

\* build_embeddings_for_project: with no chunk text at all the vector artifact
\* is unlinked, an empty metadata file is written and the status is ready.
build_extracted ==
    /\ build.pc = "b_extract"
    /\ build.pending = {}
    /\ build' = [build EXCEPT !.pc = IF build.new_texts = <<>> THEN "b_unlink" ELSE "b_embed"]
    /\ UNCHANGED <<src, faiss, meta, status, nrefresh, edits, now>>
    /\ UNCHANGED notBuildVars

build_empty_unlink ==
    /\ build.pc = "b_unlink"
    /\ faiss' = NoFaiss
    /\ build' = [build EXCEPT !.pc = "b_empty_meta"]
    /\ UNCHANGED <<src, meta, status, nrefresh, edits, now>>
    /\ UNCHANGED notBuildVars

build_empty_meta ==
    /\ build.pc = "b_empty_meta"
    /\ meta' = [state |-> "ok", id |-> build.id, items |-> <<>>, count |-> 0,
                files |-> build.current_files, mtime |-> now]
    /\ build' = [build EXCEPT !.pc = "b_empty_status"]
    /\ UNCHANGED <<src, faiss, status, nrefresh, edits, now>>
    /\ UNCHANGED notBuildVars

build_empty_status ==
    /\ build.pc = "b_empty_status"
    /\ write_status("ready", 0, FALSE)
    /\ build' = [build EXCEPT !.pc = "done", !.outcome = "empty"]
    /\ UNCHANGED <<src, faiss, meta, nrefresh, edits, now>>
    /\ UNCHANGED notBuildVars

\* _build_faiss_index_stream: one batch is embedded, normalised and added to
\* the index, or it fails and is skipped.
Batch(texts, i) ==
    SubSeq(texts, i + 1, IF i + EMBED_BATCH_SIZE < Len(texts) THEN i + EMBED_BATCH_SIZE
                         ELSE Len(texts))

build_embed_batch ==
    /\ build.pc = "b_embed"
    /\ build.i < Len(build.new_texts)
    /\ \/ build' = [build EXCEPT !.i = @ + EMBED_BATCH_SIZE,
                                 !.index = @ \o Batch(build.new_texts, build.i),
                                 !.index_none = FALSE]
       \/ build' = [build EXCEPT !.i = @ + EMBED_BATCH_SIZE, !.batchFailed = TRUE]
    /\ UNCHANGED <<src, faiss, meta, status, nrefresh, edits, now>>
    /\ UNCHANGED notBuildVars

\* The same step without the error for an index that was never created.
build_embed_end_nocheck ==
    /\ build.pc = "b_embed"
    /\ build.i >= Len(build.new_texts)
    /\ build' = [build EXCEPT !.pc = "b_write_index"]
    /\ UNCHANGED <<src, faiss, meta, status, nrefresh, edits, now>>
    /\ UNCHANGED notBuildVars

\* _build_faiss_index_stream: after the loop, no index at all is an error.
build_embed_end ==
    /\ build.pc = "b_embed"
    /\ build.i >= Len(build.new_texts)
    /\ build' = [build EXCEPT !.pc = IF build.index_none THEN "b_except" ELSE "b_write_index"]
    /\ UNCHANGED <<src, faiss, meta, status, nrefresh, edits, now>>
    /\ UNCHANGED notBuildVars

\* build_embeddings_for_project: faiss.write_index.
build_write_index ==
    /\ build.pc = "b_write_index"
    /\ faiss' = [exists |-> TRUE, id |-> build.id, rows |-> build.index, mtime |-> now]
    /\ build' = [build EXCEPT !.pc = "b_write_meta"]
    /\ UNCHANGED <<src, meta, status, nrefresh, edits, now>>
    /\ UNCHANGED notBuildVars

\* build_embeddings_for_project: the metadata written beside the index.
BuiltItems == build.new_metas

build_write_meta ==
    /\ build.pc = "b_write_meta"
    /\ meta' = [state |-> "ok", id |-> build.id, items |-> BuiltItems,
                count |-> Len(BuiltItems), files |-> build.current_files, mtime |-> now]
    /\ build' = [build EXCEPT !.pc = "b_write_status"]
    /\ UNCHANGED <<src, faiss, status, nrefresh, edits, now>>
    /\ UNCHANGED notBuildVars

build_write_status ==
    /\ build.pc = "b_write_status"
    /\ write_status("ready", Len(build.new_metas), FALSE)
    /\ build' = [build EXCEPT !.pc = "done", !.outcome = "rebuilt"]
    /\ UNCHANGED <<src, faiss, meta, nrefresh, edits, now>>
    /\ UNCHANGED notBuildVars

\* build_embeddings_for_project: the except block writes status failed.
build_except ==
    /\ build.pc = "b_except"
    /\ write_status("failed", -1, TRUE)
    /\ build' = [build EXCEPT !.pc = "done", !.outcome = "failed"]
    /\ UNCHANGED <<src, faiss, meta, nrefresh, edits, now>>
    /\ UNCHANGED notBuildVars

\* start_project_pipeline: the embedding phase is over.
refresh_end ==
    /\ build.pc = "done"
    /\ build' = FreshBuild
    /\ UNCHANGED <<src, faiss, meta, status, nrefresh, edits, now>>
    /\ UNCHANGED notBuildVars

\* The environment between runs: a file is added, removed or rewritten.
edit_file(f, c) ==
    /\ build.pc = "idle"
    /\ edits > 0
    /\ src[f] # c
    /\ src' = [src EXCEPT ![f] = c]
    /\ edits' = edits - 1
    /\ UNCHANGED <<faiss, meta, status, build, nrefresh, now>>
    /\ UNCHANGED notBuildVars

\* The environment between runs: the metadata file is left unparseable (the
\* process was killed inside json.dump, after open(..., "w") truncated it).
corrupt_meta ==
    /\ build.pc = "idle"
    /\ meta.state = "ok"
    /\ meta' = [NoMeta EXCEPT !.state = "corrupt", !.mtime = now]
    /\ UNCHANGED <<src, faiss, status, build, nrefresh, edits, now>>
    /\ UNCHANGED notBuildVars

\* The file system's clock advances.
tick ==
    /\ now < MaxClock
    /\ now' = now + 1
    /\ UNCHANGED <<src, faiss, meta, status, build, nrefresh, edits>>
    /\ UNCHANGED notBuildVars

BuildStep ==
    \/ refresh_begin
    \/ build_start
    \/ build_read_prev
    \/ build_scan
    \/ \E f \in Paths : build_merge(f)
    \/ build_extracted
    \/ build_empty_unlink
    \/ build_empty_meta
    \/ build_empty_status
    \/ build_embed_batch
    \/ build_embed_end
    \/ build_write_index
    \/ build_write_meta
    \/ build_write_status
    \/ build_except
    \/ refresh_end

EditStep == \E f \in Paths, c \in {Absent} \cup Contents : edit_file(f, c)

\* -------------------------------------------------------------- searcher
Threads == {"t1"}

\* The fields _load sets on a _ProjectSearcher.
NoObject == [cached |-> FALSE, index |-> [id |-> 0, rows |-> <<>>],
             meta |-> [id |-> 0, items |-> <<>>], mtimes |-> <<0, 0>>]

FreshQuery ==
    [pc |-> "idle", target |-> "none", obj |-> NoObject, sawStale |-> FALSE,
     reIndex |-> FALSE, reMeta |-> FALSE, result |-> "none", tool |-> "none",
     prior |-> "none"]

SearchIdle ==
    /\ SEARCHERS = NoObject
    /\ SEARCHERS_LOCK = "free"
    /\ searcher_lock = "free"
    /\ q = [t \in Threads |-> FreshQuery]
    /\ queries = 0

\* search_project is called.
search_project(t) ==
    /\ q[t].pc = "idle"
    /\ queries > 0
    /\ queries' = queries - 1
    /\ q' = [q EXCEPT ![t] = [FreshQuery EXCEPT !.pc = "g_lock", !.prior = q[t].result]]
    /\ UNCHANGED <<SEARCHERS, SEARCHERS_LOCK, searcher_lock>>
    /\ UNCHANGED notSearchVars

\* get_project_searcher: with _SEARCHERS_LOCK.
get_lock(t) ==
    /\ q[t].pc = "g_lock"
    /\ SEARCHERS_LOCK = "free"
    /\ SEARCHERS_LOCK' = t
    /\ q' = [q EXCEPT ![t].pc = "g_lookup"]
    /\ UNCHANGED <<SEARCHERS, searcher_lock, queries>>
    /\ UNCHANGED notSearchVars

\* get_project_searcher: the cached instance is returned, or a new one is
\* constructed (its __init__ loads) while the lock is held.
get_lookup(t) ==
    /\ q[t].pc = "g_lookup"
    /\ IF SEARCHERS.cached
       THEN /\ SEARCHERS_LOCK' = "free"
            /\ q' = [q EXCEPT ![t].pc = "s_lock"]
       ELSE /\ q' = [q EXCEPT ![t].pc = "l_exists", ![t].target = "new"]
            /\ UNCHANGED SEARCHERS_LOCK
    /\ UNCHANGED <<SEARCHERS, searcher_lock, queries>>
    /\ UNCHANGED notSearchVars

\* query_rag: an exception of search_project is caught and an error text is
\* returned; results are formatted into a text.
query_rag_reraise(raised) == IF raised THEN "raised" ELSE "text"

query_rag(raised) == IF raised THEN "error_text" ELSE "text"

\* An exception leaves search_project: the with-blocks release what is held.
Raise(t, what) ==
    /\ q' = [q EXCEPT ![t].pc = "idle", ![t].result = what, ![t].tool = query_rag(TRUE)]
    /\ SEARCHERS_LOCK' = IF SEARCHERS_LOCK = t THEN "free" ELSE SEARCHERS_LOCK
    /\ searcher_lock' = IF searcher_lock = t THEN "free" ELSE searcher_lock

\* _load: both files must exist.
load_exists(t) ==
    /\ q[t].pc = "l_exists"
    /\ IF ~faiss.exists \/ meta.state = "absent"
       THEN Raise(t, "not_built")
       ELSE /\ q' = [q EXCEPT ![t].pc = "l_index"]
            /\ UNCHANGED <<SEARCHERS_LOCK, searcher_lock>>
    /\ UNCHANGED <<SEARCHERS, queries>>
    /\ UNCHANGED notSearchVars

\* _load: faiss.read_index sets self.index.
load_index(t) ==
    /\ q[t].pc = "l_index"
    /\ IF ~faiss.exists
       THEN Raise(t, "error") /\ UNCHANGED SEARCHERS
       ELSE /\ IF q[t].target = "new"
               THEN /\ q' = [q EXCEPT ![t].pc = "l_meta",
                                      ![t].obj.index = [id |-> faiss.id, rows |-> faiss.rows]]
                    /\ UNCHANGED SEARCHERS
               ELSE /\ q' = [q EXCEPT ![t].pc = "l_meta", ![t].reIndex = TRUE]
                    /\ SEARCHERS' = [SEARCHERS EXCEPT
                                        !.index = [id |-> faiss.id, rows |-> faiss.rows]]
            /\ UNCHANGED <<SEARCHERS_LOCK, searcher_lock>>
    /\ UNCHANGED queries
    /\ UNCHANGED notSearchVars

\* _load: json.load sets self.meta.
load_meta(t) ==
    /\ q[t].pc = "l_meta"
    /\ IF meta.state # "ok"
       THEN Raise(t, "error") /\ UNCHANGED SEARCHERS
       ELSE /\ IF q[t].target = "new"
               THEN /\ q' = [q EXCEPT ![t].pc = "l_mtimes",
                                      ![t].obj.meta = [id |-> meta.id, items |-> meta.items]]
                    /\ UNCHANGED SEARCHERS
               ELSE /\ q' = [q EXCEPT ![t].pc = "l_mtimes", ![t].reMeta = TRUE]
                    /\ SEARCHERS' = [SEARCHERS EXCEPT
                                        !.meta = [id |-> meta.id, items |-> meta.items]]
            /\ UNCHANGED <<SEARCHERS_LOCK, searcher_lock>>
    /\ UNCHANGED queries
    /\ UNCHANGED notSearchVars

\* The clock and st_mtime count half seconds; int(st_mtime) drops the fraction.
TicksPerSecond == 2
int_mtime(m) == m \div TicksPerSecond

\* _current_mtimes: the whole-second modification times of the two files.
current_mtimes == <<int_mtime(faiss.mtime), int_mtime(meta.mtime)>>

\* _load: self._mtimes is taken last; a new instance is then cached and
\* _SEARCHERS_LOCK released, a reload goes on to the search.
load_mtimes(t) ==
    /\ q[t].pc = "l_mtimes"
    /\ IF ~faiss.exists \/ meta.state = "absent"
       THEN Raise(t, "error") /\ UNCHANGED SEARCHERS
       ELSE IF q[t].target = "new"
       THEN /\ SEARCHERS' = [q[t].obj EXCEPT !.cached = TRUE, !.mtimes = current_mtimes]
            /\ SEARCHERS_LOCK' = "free"
            /\ q' = [q EXCEPT ![t].pc = "s_lock", ![t].obj = NoObject]
            /\ UNCHANGED searcher_lock
       ELSE /\ SEARCHERS' = [SEARCHERS EXCEPT !.mtimes = current_mtimes]
            /\ q' = [q EXCEPT ![t].pc = "s_search"]
            /\ UNCHANGED <<SEARCHERS_LOCK, searcher_lock>>
    /\ UNCHANGED queries
    /\ UNCHANGED notSearchVars

\* _ProjectSearcher.search: with self._lock.
search_lock(t) ==
    /\ q[t].pc = "s_lock"
    /\ searcher_lock = "free"
    /\ searcher_lock' = t
    /\ q' = [q EXCEPT ![t].pc = "s_stale"]
    /\ UNCHANGED <<SEARCHERS, SEARCHERS_LOCK, queries>>
    /\ UNCHANGED notSearchVars

\* _stale: a failing stat counts as stale.
stale == ~faiss.exists \/ meta.state = "absent" \/ current_mtimes # SEARCHERS.mtimes

\* _ProjectSearcher.search: if self._stale(): self._load().
AfterStale_noreload(isStale) == "s_search"
AfterStale(isStale) == IF isStale THEN "l_exists" ELSE "s_search"

search_stale(t) ==
    /\ q[t].pc = "s_stale"
    /\ q' = [q EXCEPT ![t].pc = AfterStale(stale), ![t].target = "cached",
                      ![t].sawStale = stale]
    /\ UNCHANGED <<SEARCHERS, SEARCHERS_LOCK, searcher_lock, queries>>
    /\ UNCHANGED notSearchVars

\* _ProjectSearcher.search: the top-k search over self.index and the mapping of
\* its rows through self.meta; the lock is released on return.
search_run(t) ==
    /\ q[t].pc = "s_search"
    /\ q' = [q EXCEPT ![t].pc = "idle", ![t].result = "results",
                      ![t].tool = query_rag(FALSE)]
    /\ searcher_lock' = "free"
    /\ UNCHANGED <<SEARCHERS, SEARCHERS_LOCK, queries>>
    /\ UNCHANGED notSearchVars

SearchStep ==
    \E t \in Threads :
        \/ search_project(t)
        \/ get_lock(t)
        \/ get_lookup(t)
        \/ load_exists(t)
        \/ load_index(t)
        \/ load_meta(t)
        \/ load_mtimes(t)
        \/ search_lock(t)
        \/ search_stale(t)
        \/ search_run(t)

\* -------------------------------------------------------------- site map
\* Entry names of a storage directory and what an entry can be.  A directory
\* with files holds one non-empty documentation file.
Names == {".github", "a.py", "b.md", "build", "overview", "package-lock.json"}
Kinds == {"absent", "empty_file", "file", "empty_dir", "dir"}

\* The names with a suffix are files of the tree, the others are directories.
FileNames == {"a.py", "b.md", "package-lock.json"}
KindsOf(n) ==
    IF n \in FileNames THEN {"absent", "empty_file", "file"}
    ELSE {"absent", "empty_dir", "dir"}
NoDir == [n \in Names |-> "no_dir"]     \* the storage directory does not exist
NoTree == <<>>                            \* no site map was returned yet

\* The order sorted() gives the names (by code point).
NameRank(n) ==
    CASE n = ".github" -> 0
      [] n = "a.py" -> 1
      [] n = "b.md" -> 2
      [] n = "build" -> 3
      [] n = "overview" -> 4
      [] OTHER -> 5

IGNORE_DIRS == {"build"}
DotNames == {".github"}                 \* the names entry.startswith('.') is true of
IGNORE_FILES == {"package-lock.json"}
allowed_exts == {"a.py", "b.md", "package-lock.json"}   \* the names with an allowed extension

\* A dict keeps its keys in insertion order: a sequence of <<key, value>>.
\* The value {} of a leaf is the empty sequence.
EmptyLeaf == <<>>
SubTree == <<<<"x.md", EmptyLeaf>>>>

RECURSIVE insert_sorted(_, _)
insert_sorted(n, sq) ==
    IF sq = <<>> THEN <<n>>
    ELSE IF NameRank(n) <= NameRank(Head(sq)) THEN <<n>> \o sq
    ELSE <<Head(sq)>> \o insert_sorted(n, Tail(sq))

\* sorted(os.listdir(current_path)) left out: the listing order is kept.
sorted_unsorted(listing) == listing

RECURSIVE sorted(_)
sorted(listing) ==
    IF listing = <<>> THEN <<>>
    ELSE insert_sorted(Head(listing), sorted(Tail(listing)))

\* build_tree, one entry: is it a key of the tree, and with what value.
Included(dir, n) ==
    CASE dir[n] = "dir" -> n \notin IGNORE_DIRS /\ n \notin DotNames
      [] dir[n] = "file" -> n \notin IGNORE_FILES /\ n \in allowed_exts
      [] OTHER -> FALSE

EntryValue(dir, n) == IF dir[n] = "dir" THEN SubTree ELSE EmptyLeaf

RECURSIVE build_entries(_, _)
build_entries(dir, names) ==
    IF names = <<>> THEN <<>>
    ELSE (IF Included(dir, Head(names))
          THEN <<<<Head(names), EntryValue(dir, Head(names))>>>>
          ELSE <<>>) \o build_entries(dir, Tail(names))

build_tree(dir, listing) == build_entries(dir, sorted(listing))

\* dict.update: the value of a key already there is replaced in place, a new
\* key is appended.
HasKey(d, key) == \E i \in 1..Len(d) : d[i][1] = key

SetItem(d, key, v) ==
    IF HasKey(d, key)
    THEN [i \in 1..Len(d) |-> IF d[i][1] = key THEN <<key, v>> ELSE d[i]]
    ELSE Append(d, <<key, v>>)

RECURSIVE dict_update(_, _)
dict_update(d, t) ==
    IF t = <<>> THEN d
    ELSE dict_update(SetItem(d, Head(t)[1], Head(t)[2]), Tail(t))

\* The orders os.listdir can give the entries of a directory.
Present(dir) == IF dir = NoDir THEN {} ELSE {n \in Names : dir[n] # "absent"}

Listings(dir) ==
    {l \in [1..Cardinality(Present(dir)) -> Present(dir)] :
        \A i, j \in 1..Cardinality(Present(dir)) : i # j => l[i] # l[j]}

\* create_wiki_structure
wiki_tree_of(dir, listing) ==
    IF dir = NoDir THEN <<<<"overview", EmptyLeaf>>>>
    ELSE dict_update(<<<<"overview", EmptyLeaf>>>>, build_tree(dir, listing))

TreeIdle ==
    /\ root = NoDir
    /\ wiki_tree = NoTree
    /\ prev_tree = NoTree
    /\ ncalls = 0

create_wiki_structure_call ==
    /\ ncalls < MaxTreeCalls
    /\ \E listing \in Listings(root) :
          wiki_tree' = wiki_tree_of(root, listing)
    /\ prev_tree' = wiki_tree
    /\ ncalls' = ncalls + 1
    /\ UNCHANGED root
    /\ UNCHANGED notTreeVars

\* The storage directory of the indexed source tree: each path of the tree is a
\* non-empty file of the root.
StorageDir ==
    [n \in Names |-> IF n \in Paths /\ src[n] # Absent THEN "file" ELSE "absent"]

\* start_analysis_for_project, after the embedding phase of the run: the site
\* map of the storage directory.
analysis_site_map ==
    /\ build.pc = "done"
    /\ ncalls < nrefresh
    /\ \E listing \in Listings(StorageDir) :
          wiki_tree' = wiki_tree_of(StorageDir, listing)
    /\ prev_tree' = wiki_tree
    /\ ncalls' = ncalls + 1
    /\ UNCHANGED root
    /\ UNCHANGED notTreeVars

\* -------------------------------------------------------- searcher cache
CacheThreads == {"u1", "u2"}
Instances == 1..MaxInstances
NoInstance == 0

IdleThread == [pc |-> "idle", p |-> 0, inst |-> NoInstance]

CacheIdle ==
    /\ registry = [p \in Projects |-> NoInstance]
    /\ registry_lock = "free"
    /\ inst_of = [i \in Instances |-> 0]
    /\ inst_lock = [i \in Instances |-> "free"]
    /\ built = [p \in Projects |-> FALSE]
    /\ th = [t \in CacheThreads |-> IdleThread]
    /\ made = [p \in Projects |-> 0]
    /\ clears = MaxClears

\* A with-block on an RLock held by another thread blocks.
LockFree_ignored(holder) == TRUE

LockFree(holder) == holder = "free"

\* The positions inside the with-block of _ProjectSearcher.search.
BodyPcs == {"body_stale", "body_reload", "body_search"}

\* search_project(project_id, ...) is called.
cache_search_project(t, p) ==
    /\ th[t].pc = "idle"
    /\ th' = [th EXCEPT ![t] = [pc |-> "g_lock", p |-> p, inst |-> NoInstance]]
    /\ UNCHANGED <<registry, registry_lock, inst_of, inst_lock, built, made, clears>>
    /\ UNCHANGED notCacheVars

\* get_project_searcher: with _SEARCHERS_LOCK.
cache_get_lock(t) ==
    /\ th[t].pc = "g_lock"
    /\ LockFree(registry_lock)
    /\ registry_lock' = t
    /\ th' = [th EXCEPT ![t].pc = "g_lookup"]
    /\ UNCHANGED <<registry, inst_of, inst_lock, built, made, clears>>
    /\ UNCHANGED notCacheVars

\* get_project_searcher: _SEARCHERS.get(key); the cached instance is returned
\* and the lock released, or a new one is to be constructed.
cache_get_lookup(t) ==
    /\ th[t].pc = "g_lookup"
    /\ IF registry[th[t].p] # NoInstance
       THEN /\ th' = [th EXCEPT ![t].pc = "s_lock", ![t].inst = registry[th[t].p]]
            /\ registry_lock' = "free"
       ELSE /\ th' = [th EXCEPT ![t].pc = "g_construct"]
            /\ UNCHANGED registry_lock
    /\ UNCHANGED <<registry, inst_of, inst_lock, built, made, clears>>
    /\ UNCHANGED notCacheVars

\* The next instance to be created.
NewInstance == CHOOSE i \in Instances : inst_of[i] = 0 /\ \A j \in Instances : j < i => inst_of[j] # 0

\* get_project_searcher: _ProjectSearcher(...) runs _load inside the lock; a
\* missing file raises, the lock is released and nothing is cached.
cache_construct(t) ==
    /\ th[t].pc = "g_construct"
    /\ IF built[th[t].p]
       THEN /\ \E i \in Instances : inst_of[i] = 0
            /\ inst_of' = [inst_of EXCEPT ![NewInstance] = th[t].p]
            /\ made' = [made EXCEPT ![th[t].p] = @ + 1]
            /\ th' = [th EXCEPT ![t].pc = "g_store", ![t].inst = NewInstance]
            /\ UNCHANGED registry_lock
       ELSE /\ th' = [th EXCEPT ![t] = IdleThread]
            /\ registry_lock' = "free"
            /\ UNCHANGED <<inst_of, made>>
    /\ UNCHANGED <<registry, inst_lock, built, clears>>
    /\ UNCHANGED notCacheVars

\* get_project_searcher: _SEARCHERS[key] = searcher; the lock is released.
cache_store(t) ==
    /\ th[t].pc = "g_store"
    /\ registry' = [registry EXCEPT ![th[t].p] = th[t].inst]
    /\ registry_lock' = "free"
    /\ th' = [th EXCEPT ![t].pc = "s_lock"]
    /\ UNCHANGED <<inst_of, inst_lock, built, made, clears>>
    /\ UNCHANGED notCacheVars

\* _ProjectSearcher.search: with self._lock.
cache_search_lock(t) ==
    /\ th[t].pc = "s_lock"
    /\ LockFree(inst_lock[th[t].inst])
    /\ inst_lock' = [inst_lock EXCEPT ![th[t].inst] = t]
    /\ th' = [th EXCEPT ![t].pc = "body_stale"]
    /\ UNCHANGED <<registry, registry_lock, inst_of, built, made, clears>>
    /\ UNCHANGED notCacheVars

\* _ProjectSearcher.search: the staleness check; the files may have changed.
cache_body_stale(t) ==
    /\ th[t].pc = "body_stale"
    /\ \E isStale \in BOOLEAN :
          th' = [th EXCEPT ![t].pc = IF isStale THEN "body_reload" ELSE "body_search"]
    /\ UNCHANGED <<registry, registry_lock, inst_of, inst_lock, built, made, clears>>
    /\ UNCHANGED notCacheVars

\* _ProjectSearcher.search: the reload.
cache_body_reload(t) ==
    /\ th[t].pc = "body_reload"
    /\ th' = [th EXCEPT ![t].pc = "body_search"]
    /\ UNCHANGED <<registry, registry_lock, inst_of, inst_lock, built, made, clears>>
    /\ UNCHANGED notCacheVars

\* _ProjectSearcher.search: the top-k search and the snippets; the lock is
\* released on return.
cache_body_search(t) ==
    /\ th[t].pc = "body_search"
    /\ inst_lock' = [inst_lock EXCEPT ![th[t].inst] = "free"]
    /\ th' = [th EXCEPT ![t] = IdleThread]
    /\ UNCHANGED <<registry, registry_lock, inst_of, built, made, clears>>
    /\ UNCHANGED notCacheVars

\* clear_project_searcher(project_id), called by some other thread: the pop
\* under _SEARCHERS_LOCK.
clear_project_searcher(p) ==
    /\ clears > 0
    /\ LockFree(registry_lock)
    /\ clears' = clears - 1
    /\ registry' = [registry EXCEPT ![p] = NoInstance]
    /\ made' = [made EXCEPT ![p] = 0]
    /\ UNCHANGED <<registry_lock, inst_of, inst_lock, built, th>>
    /\ UNCHANGED notCacheVars

\* An index build of the project persists the pair.
cache_built(p) ==
    /\ ~built[p]
    /\ built' = [built EXCEPT ![p] = TRUE]
    /\ UNCHANGED <<registry, registry_lock, inst_of, inst_lock, th, made, clears>>
    /\ UNCHANGED notCacheVars

CacheStep ==
    \/ \E t \in CacheThreads, p \in Projects : cache_search_project(t, p)
    \/ \E t \in CacheThreads :
          \/ cache_get_lock(t)
          \/ cache_get_lookup(t)
          \/ cache_construct(t)
          \/ cache_store(t)
          \/ cache_search_lock(t)
          \/ cache_body_stale(t)
          \/ cache_body_reload(t)
          \/ cache_body_search(t)
    \/ \E p \in Projects : clear_project_searcher(p) \/ cache_built(p)

\* ----------------------------------------------------------- output tree
\* A text is a sequence of characters; CR and LF are the two line ends.
Chars == {"x", "CR", "LF"}
Bodies == UNION {[1..n -> Chars] : n \in 1..MaxBody}

\* What is at an output path: nothing, a directory, or a file with its text.
NoFile == <<>>
IsDir == <<"/">>
IsText(c) == c # NoFile /\ c # IsDir

\* f"{node}.md"
md(node) ==
    CASE node = "overview" -> "overview.md"
      [] node = "a.py" -> "a.py.md"
      [] node = "a.py.md" -> "a.py.md.md"
      [] node = "b.md" -> "b.md.md"
      [] OTHER -> "x.md.md"

\* The site maps of the storage trees made of the file a.py, the directory
\* a.py.md holding x.md, and the file b.md.
OptionalEntries == <<<<"a.py", EmptyLeaf>>, <<"a.py.md", SubTree>>, <<"b.md", EmptyLeaf>>>>

SiteMaps ==
    {dict_update(<<<<"overview", EmptyLeaf>>>>,
                 SelectSeq(OptionalEntries, LAMBDA e : e[1] \in S)) :
        S \in SUBSET {"a.py", "a.py.md", "b.md"}}

OutPaths == {<<"overview.md">>, <<"a.py.md">>, <<"b.md.md">>, <<"a.py.md", "x.md.md">>}

\* _collect_leaf_nodes: the (rel_path, node) pairs in the order of the tree.
RECURSIVE collect_leaf_nodes(_, _)
collect_leaf_nodes(tree, rel_path) ==
    IF tree = <<>> THEN <<>>
    ELSE (IF Head(tree)[2] # EmptyLeaf
          THEN collect_leaf_nodes(Head(tree)[2], Append(rel_path, Head(tree)[1]))
          ELSE <<<<rel_path, Head(tree)[1]>>>>) \o collect_leaf_nodes(Tail(tree), rel_path)

leaf_nodes == collect_leaf_nodes(smap, <<>>)

\* process_leaf: md_file = wiki_dir / rel_path / f"{node}.md"
md_file(leaf) == Append(leaf[1], md(leaf[2]))

\* The directories md_file.parent.mkdir(parents=True, exist_ok=True) needs.
Ancestors(path) == {SubSeq(path, 1, n) : n \in 1..(Len(path) - 1)}

\* The text the generation capability returns for a page: it names the page.
AgentText(node) == <<node>> \o gen_body

OutIdle ==
    /\ smap = <<>>
    /\ wiki_dir = [o \in OutPaths |-> NoFile]
    /\ leaf_state = <<>>
    /\ gen_body = <<>>
    /\ gen_failed = FALSE
    /\ out_pc = "idle"
    /\ readback = <<>>
    /\ out_runs = 0

\* generate_wiki_for_project: wiki_dir.mkdir, _collect_leaf_nodes and the
\* submission of every leaf; the source tree may differ from run to run.
generate_wiki_for_project ==
    /\ out_pc \in {"idle", "read"}
    /\ out_runs < MaxOutRuns
    /\ out_runs' = out_runs + 1
    /\ \E t \in SiteMaps :
          /\ smap' = t
          /\ leaf_state' = [i \in 1..Len(collect_leaf_nodes(t, <<>>)) |-> "queued"]
    /\ \E b \in Bodies : gen_body' = b
    /\ gen_failed' = FALSE
    /\ out_pc' = "pool"
    /\ readback' = <<>>
    /\ UNCHANGED wiki_dir
    /\ UNCHANGED notOutVars

\* process_leaf in a pool worker: the generation call, the creation of the
\* parent directories and the write of the output file; every exception is
\* caught and logged.
out_process_leaf(i) ==
    /\ out_pc = "pool"
    /\ i \in 1..Len(leaf_state)
    /\ leaf_state[i] = "queued"
    /\ LET target == md_file(leaf_nodes[i])
           made_dirs == [o \in OutPaths |->
                            IF o \in Ancestors(target) THEN IsDir ELSE wiki_dir[o]]
       IN  \/ /\ gen_failed' = TRUE
              /\ leaf_state' = [leaf_state EXCEPT ![i] = "failed"]
              /\ UNCHANGED wiki_dir
           \/ /\ UNCHANGED gen_failed
              /\ IF \E a \in Ancestors(target) : IsText(wiki_dir[a])
                 THEN /\ leaf_state' = [leaf_state EXCEPT ![i] = "failed"]
                      /\ UNCHANGED wiki_dir
                 ELSE IF wiki_dir[target] = IsDir
                 THEN /\ leaf_state' = [leaf_state EXCEPT ![i] = "failed"]
                      /\ wiki_dir' = made_dirs
                 ELSE /\ leaf_state' = [leaf_state EXCEPT ![i] = "ok"]
                      /\ wiki_dir' = [made_dirs EXCEPT
                                         ![target] = AgentText(leaf_nodes[i][2])]
    /\ UNCHANGED <<smap, gen_body, out_pc, readback, out_runs>>
    /\ UNCHANGED notOutVars

\* generate_wiki_for_project returns when every future is done.
out_generate_return ==
    /\ out_pc = "pool"
    /\ \A i \in 1..Len(leaf_state) : leaf_state[i] # "queued"
    /\ out_pc' = "returned"
    /\ UNCHANGED <<smap, wiki_dir, leaf_state, gen_body, gen_failed, readback, out_runs>>
    /\ UNCHANGED notOutVars

\* open(md_path, "r") reads with universal newlines: CR LF and CR become LF.
RECURSIVE read_text_mode(_)
read_text_mode(text) ==
    IF text = <<>> THEN <<>>
    ELSE IF Head(text) = "CR"
         THEN <<"LF">> \o read_text_mode(IF Len(text) > 1 /\ text[2] = "LF"
                                         THEN Tail(Tail(text)) ELSE Tail(text))
         ELSE <<Head(text)>> \o read_text_mode(Tail(text))

None == <<"None">>
Raised == <<"IsADirectoryError">>

\* fill_tree_with_content, one leaf: None when md_path does not exist, else
\* the file is opened and read (which raises on a directory).
fill_leaf(leaf) ==
    IF wiki_dir[md_file(leaf)] = NoFile THEN None
    ELSE IF wiki_dir[md_file(leaf)] = IsDir THEN Raised
    ELSE read_text_mode(wiki_dir[md_file(leaf)])

\* get_project_wiki_content: fill_tree_with_content over the site map.
fill_tree_with_content ==
    /\ out_pc = "returned"
    /\ readback' = [i \in 1..Len(leaf_nodes) |-> fill_leaf(leaf_nodes[i])]
    /\ out_pc' = "read"
    /\ UNCHANGED <<smap, wiki_dir, leaf_state, gen_body, gen_failed, out_runs>>
    /\ UNCHANGED notOutVars

OutStep ==
    \/ generate_wiki_for_project
    \/ \E i \in 1..4 : out_process_leaf(i)
    \/ out_generate_return
    \/ fill_tree_with_content

\* ------------------------------------------------------ the running lock
\* The with-blocks on _RUNNING_LOCK, step by step: the caller of a launch and
\* the runner in its finally block take the lock, work on the set, release.
LockIsFree == <<"free", 0, 0>>

LockIdle == RUNNING_LOCK = LockIsFree

\* start_project_pipeline_background: with _RUNNING_LOCK (entered).
launch_enter(p, k) ==
    /\ NextCall(p, k)
    /\ RUNNING_LOCK = LockIsFree
    /\ RUNNING_LOCK' = <<"launch", p, k>>
    /\ UNCHANGED notLockVars

\* start_project_pipeline_background: the test and the add, inside the block.
launch_locked(p, k) ==
    /\ RUNNING_LOCK = <<"launch", p, k>>
    /\ start_project_pipeline_background(p, k)

\* start_project_pipeline_background: the with-block is left (by the return
\* of a refused launch or at its end, before the thread is created).
launch_exit(p, k) ==
    /\ RUNNING_LOCK = <<"launch", p, k>>
    /\ run[p][k].pc # "idle"
    /\ RUNNING_LOCK' = LockIsFree
    /\ UNCHANGED notLockVars

\* _runner, finally: with _RUNNING_LOCK (entered).
finally_enter(p, k) ==
    /\ run[p][k].pc = "finally"
    /\ RUNNING_LOCK = LockIsFree
    /\ RUNNING_LOCK' = <<"finally", p, k>>
    /\ UNCHANGED notLockVars

\* _runner, finally: the discard, inside the block.
finally_locked(p, k) ==
    /\ RUNNING_LOCK = <<"finally", p, k>>
    /\ runner_finally(p, k)

\* _runner, finally: the with-block is left and the thread ends.
finally_exit(p, k) ==
    /\ RUNNING_LOCK = <<"finally", p, k>>
    /\ run[p][k].pc = "done"
    /\ RUNNING_LOCK' = LockIsFree
    /\ UNCHANGED notLockVars

\* A stage of start_project_pipeline; the thread was created after the
\* launch left its with-block.
StagePcs == ActivePcs \ {"finally"}

run_stage(p, k) ==
    /\ RUNNING_LOCK # <<"launch", p, k>>
    /\ \/ pipeline_check1(p, k)
       \/ pipeline_refresh(p, k)
       \/ pipeline_check2(p, k)
       \/ analysis_get(p, k)
       \/ analysis_commit_analyzing(p, k)
       \/ analysis_refresh(p, k)
       \/ analysis_tree(p, k)
       \/ generate_submit(p, k)
       \/ generate_join(p, k)
       \/ analysis_commit_generated(p, k)
       \/ \E l \in Leaves : process_leaf_start(p, k, l) \/ process_leaf_finish(p, k, l)

\* --------------------------------------------------------- token ceiling
\* The text of a backing file, and the two files that have none.
Letters == {"a", "b"}
FileTexts == UNION {[1..n -> Letters] : n \in 0..MaxTextLen}
NoBacking == <<"missing">>
NotUtf8 == <<"invalid">>
NotCalled == <<"not called">>

\* tokenizer.encode: the pair a b is one token, any other letter is one.
RECURSIVE encode(_)
encode(text) ==
    IF text = <<>> THEN <<>>
    ELSE IF Len(text) >= 2 /\ text[1] = "a" /\ text[2] = "b"
         THEN <<<<"a", "b">>>> \o encode(SubSeq(text, 3, Len(text)))
         ELSE <<<<Head(text)>>>> \o encode(Tail(text))

\* tokenizer.decode: the texts of the tokens, joined.
RECURSIVE decode(_)
decode(tokens) ==
    IF tokens = <<>> THEN <<>>
    ELSE Head(tokens) \o decode(Tail(tokens))

\* The cut taken on the letters of the text instead of its tokens.
truncate_letters(text) ==
    IF Len(encode(text)) > MAX_AGENT_TOKENS
    THEN SubSeq(text, 1, MAX_AGENT_TOKENS)
    ELSE text

\* process_leaf: if token_count > MAX_AGENT_TOKENS:
\*     file_content = tokenizer.decode(tokens[:MAX_AGENT_TOKENS])
truncate(text) ==
    IF Len(encode(text)) > MAX_AGENT_TOKENS
    THEN decode(SubSeq(encode(text), 1, MAX_AGENT_TOKENS))
    ELSE text

TokIdle ==
    /\ source_file = NoBacking
    /\ file_content = <<>>
    /\ agent_input = NotCalled
    /\ leaf_pc = "idle"

\* process_leaf: file_content = "", and the file is read when it exists; a
\* file that is not UTF-8 raises, which the except branch logs.
leaf_read ==
    /\ leaf_pc = "read"
    /\ IF source_file = NoBacking
       THEN file_content' = <<>> /\ leaf_pc' = "call"
       ELSE IF source_file = NotUtf8
       THEN file_content' = <<>> /\ leaf_pc' = "failed"
       ELSE file_content' = source_file /\ leaf_pc' = "encode"
    /\ UNCHANGED <<source_file, agent_input>>
    /\ UNCHANGED notTokVars

\* process_leaf: the token count and the truncation.
leaf_truncate ==
    /\ leaf_pc = "encode"
    /\ file_content' = truncate(file_content)
    /\ leaf_pc' = "call"
    /\ UNCHANGED <<source_file, agent_input>>
    /\ UNCHANGED notTokVars

\* process_leaf: agent(page_title=node, file_content=file_content, ...).
leaf_call ==
    /\ leaf_pc = "call"
    /\ agent_input' = file_content
    /\ leaf_pc' = "done"
    /\ UNCHANGED <<source_file, file_content>>
    /\ UNCHANGED notTokVars

TokStep == leaf_read \/ leaf_truncate \/ leaf_call

\* -------------------------------------------------------------- chunking
\* What a chunker's chunk() gives for a text: it raises, or it returns chunks,
\* each of which is blank (no word), big (more than MAX_CHUNK_TOKENS tokens)
\* or ok.
ChunkKinds == {"ok", "big", "blank"}
Raises == <<"raises">>
RawChunks == UNION {[1..n -> ChunkKinds] : n \in 0..MaxSpans}

\* A span: the position of its chunk in the chunker's output and the strategy.
Span(n, by) == [n |-> n, by |-> by]

Kept(raw, by) ==
    LET Pick[n \in 0..Len(raw)] ==
            IF n = 0 THEN <<>>
            ELSE IF raw[n] = "ok" THEN Append(Pick[n - 1], Span(n, by))
            ELSE Pick[n - 1]
    IN  Pick[Len(raw)]

\* chunk_text_tree_sitter: chunks without a word and chunks above the token
\* ceiling are left out; any exception gives the empty list.
chunk_text_tree_sitter(raw) ==
    IF raw = Raises THEN <<>> ELSE Kept(raw, "structural")

\* chunk_text_sentences: chunks above the token ceiling are left out.
chunk_text_sentences(raw) == Kept(raw, "sentence")

\* The fallback taken only for an extension without a language.
use_fallback_nolang(lang, found) == ~lang

\* _process_file: if not spans: spans = chunk_text_sentences(text)
use_fallback(lang, found) == found = <<>>

NoChunkFile == [lang |-> FALSE, blank |-> TRUE, structural |-> <<>>, sentences |-> <<>>]

ChunkIdle ==
    /\ chunk_file = NoChunkFile
    /\ spans = <<>>
    /\ chunks = <<>>
    /\ used_fallback = FALSE
    /\ chunk_pc = "idle"

\* _process_file: a text that is empty after strip() returns no chunk.
chunk_read ==
    /\ chunk_pc = "read"
    /\ chunk_pc' = IF chunk_file.blank THEN "done" ELSE "structural"
    /\ UNCHANGED <<chunk_file, spans, chunks, used_fallback>>
    /\ UNCHANGED notChunkVars

\* _process_file: spans = [] and, with a language, the structural chunker.
chunk_structural ==
    /\ chunk_pc = "structural"
    /\ spans' = IF chunk_file.lang THEN chunk_text_tree_sitter(chunk_file.structural)
                ELSE <<>>
    /\ chunk_pc' = "fallback"
    /\ UNCHANGED <<chunk_file, chunks, used_fallback>>
    /\ UNCHANGED notChunkVars

\* _process_file: the fallback when there is no span, and the chunks of the
\* spans; an exception of the sentence chunker leaves _process_file.
chunk_fallback ==
    /\ chunk_pc = "fallback"
    /\ IF use_fallback(chunk_file.lang, spans)
       THEN /\ used_fallback' = TRUE
            /\ IF chunk_file.sentences = Raises
               THEN /\ chunk_pc' = "raised"
                    /\ UNCHANGED <<spans, chunks>>
               ELSE /\ spans' = chunk_text_sentences(chunk_file.sentences)
                    /\ chunks' = spans'
                    /\ chunk_pc' = "done"
       ELSE /\ chunks' = spans
            /\ chunk_pc' = "done"
            /\ UNCHANGED <<spans, used_fallback>>
    /\ UNCHANGED chunk_file
    /\ UNCHANGED notChunkVars

ChunkStep == chunk_read \/ chunk_structural \/ chunk_fallback

UnitIdle == OutIdle /\ LockIdle /\ TokIdle /\ ChunkIdle

PipeInit ==
    /\ RUNNING_PIPELINES = {}
    /\ deleting = [p \in Projects |-> 0]
    /\ disk = [p \in Projects |->
                 [storage |-> p = 1, files |-> MaxLeaves - 1, analysis |-> FALSE,
                  tree |-> FALSE, wikidir |-> FALSE, wiki |-> {}]]
    /\ run = [p \in Projects |-> [k \in Calls |-> FreshRun("idle")]]
    /\ items = [p \in Projects |-> [k \in Calls |-> NoItems]]

\* One project with a row (created by the router with status analyzing) whose
\* launches are issued; the other id has no row and no caller.
Init ==
    /\ CacheIdle
    /\ UnitIdle
    /\ PipeInit
    /\ BuildIdle
    /\ SearchIdle
    /\ TreeIdle
    /\ project = [p \in Projects |-> IF p = 1 THEN NewRow("analyzing") ELSE NoRow]
    /\ calls = [p \in Projects |-> IF p = 1 THEN MaxLaunches ELSE 0]

PipeNext ==
    \/ \E p \in Projects, k \in Calls :
          \/ start_project_pipeline_background(p, k)
          \/ runner_finally(p, k)
          \/ pipeline_check1(p, k)
          \/ pipeline_refresh(p, k)
          \/ pipeline_check2(p, k)
          \/ analysis_get(p, k)
          \/ analysis_commit_analyzing(p, k)
          \/ analysis_refresh(p, k)
          \/ analysis_tree(p, k)
          \/ generate_submit(p, k)
          \/ generate_join(p, k)
          \/ analysis_commit_generated(p, k)
          \/ \E l \in Leaves : process_leaf_start(p, k, l) \/ process_leaf_finish(p, k, l)
    \/ \E p \in Projects : delete_project_record(p) \/ delete_project_dirs(p)

Next == PipeNext

Spec == Init /\ [][Next]_vars

\* The pipeline at rest: one project with a row and no launch to come.
PipeIdle ==
    /\ PipeInit
    /\ project = [p \in Projects |-> IF p = 1 THEN NewRow("analyzing") ELSE NoRow]
    /\ calls = [p \in Projects |-> 0]

\* Any source tree, no index yet.
BuildInit ==
    /\ CacheIdle
    /\ UnitIdle
    /\ PipeIdle
    /\ SearchIdle
    /\ TreeIdle
    /\ src \in [Paths -> {Absent} \cup Contents]
    /\ faiss = NoFaiss
    /\ meta = NoMeta
    /\ status = NoStatus
    /\ build = FreshBuild
    /\ nrefresh = 0
    /\ edits = MaxEdits
    /\ now = 0

BuildNext == BuildStep \/ EditStep \/ corrupt_meta

BuildSpec == BuildInit /\ [][BuildNext]_vars

\* One file to index, one edit of the tree to come, and the queries.
SearchInit ==
    /\ CacheIdle
    /\ UnitIdle
    /\ PipeIdle
    /\ TreeIdle
    /\ src = [f \in Paths |-> IF f = "a.py" THEN 1 ELSE Absent]
    /\ faiss = NoFaiss
    /\ meta = NoMeta
    /\ status = NoStatus
    /\ build = FreshBuild
    /\ nrefresh = 0
    /\ edits = 1
    /\ now = 0
    /\ SEARCHERS = NoObject
    /\ SEARCHERS_LOCK = "free"
    /\ searcher_lock = "free"
    /\ q = [t \in Threads |-> FreshQuery]
    /\ queries = MaxQueries

SearchNext == BuildStep \/ EditStep \/ tick \/ SearchStep

SearchSpec == SearchInit /\ [][SearchNext]_vars

\* A started thread keeps being scheduled, and every call it makes returns.
RunnerStep(p, k) ==
    \/ runner_finally(p, k)
    \/ pipeline_check1(p, k)
    \/ pipeline_refresh(p, k)
    \/ pipeline_check2(p, k)
    \/ analysis_get(p, k)
    \/ analysis_commit_analyzing(p, k)
    \/ analysis_refresh(p, k)
    \/ analysis_tree(p, k)
    \/ generate_submit(p, k)
    \/ generate_join(p, k)
    \/ analysis_commit_generated(p, k)
    \/ \E l \in Leaves : process_leaf_start(p, k, l) \/ process_leaf_finish(p, k, l)

FairSpec == Spec /\ \A p \in Projects, k \in Calls : WF_vars(RunnerStep(p, k))

\* One run of a project whose site map has more leaves than the pool has
\* workers; the project is not deleted.
GenInit ==
    /\ CacheIdle
    /\ UnitIdle
    /\ BuildIdle
    /\ SearchIdle
    /\ TreeIdle
    /\ RUNNING_PIPELINES = {}
    /\ deleting = [p \in Projects |-> 0]
    /\ disk = [p \in Projects |->
                 [storage |-> p = 1, files |-> PoolLeaves - 1, analysis |-> FALSE,
                  tree |-> FALSE, wikidir |-> FALSE, wiki |-> {}]]
    /\ run = [p \in Projects |-> [k \in Calls |-> FreshRun("idle")]]
    /\ items = [p \in Projects |-> [k \in Calls |-> NoItems]]
    /\ project = [p \in Projects |-> IF p = 1 THEN NewRow("analyzing") ELSE NoRow]
    /\ calls = [p \in Projects |-> IF p = 1 THEN 1 ELSE 0]

GenNext ==
    \E p \in Projects, k \in Calls :
        \/ start_project_pipeline_background(p, k)
        \/ runner_finally(p, k)
        \/ pipeline_check1(p, k)
        \/ pipeline_refresh(p, k)
        \/ pipeline_check2(p, k)
        \/ analysis_get(p, k)
        \/ analysis_commit_analyzing(p, k)
        \/ analysis_refresh(p, k)
        \/ analysis_tree(p, k)
        \/ generate_submit(p, k)
        \/ generate_join(p, k)
        \/ analysis_commit_generated(p, k)
        \/ \E l \in Leaves : process_leaf_start(p, k, l) \/ process_leaf_finish(p, k, l)

GenSpec == GenInit /\ [][GenNext]_vars

\* Any small storage directory, or none.
TreeInit ==
    /\ CacheIdle
    /\ UnitIdle
    /\ PipeIdle
    /\ BuildIdle
    /\ SearchIdle
    /\ root \in {r \in [Names -> Kinds] : \A n \in Names : r[n] \in KindsOf(n)} \cup {NoDir}
    /\ wiki_tree = NoTree
    /\ prev_tree = NoTree
    /\ ncalls = 0

TreeNext == create_wiki_structure_call

TreeSpec == TreeInit /\ [][TreeNext]_vars

\* Any source tree, no index yet, and no edit to come.
RerunInit ==
    /\ CacheIdle
    /\ UnitIdle
    /\ PipeIdle
    /\ SearchIdle
    /\ TreeIdle
    /\ src \in [Paths -> {Absent} \cup Contents]
    /\ faiss = NoFaiss
    /\ meta = NoMeta
    /\ status = NoStatus
    /\ build = FreshBuild
    /\ nrefresh = 0
    /\ edits = 0
    /\ now = 0

RerunNext == BuildStep \/ analysis_site_map

RerunSpec == RerunInit /\ [][RerunNext]_vars

\* No index on disk and nothing cached.
CacheInit ==
    /\ PipeIdle
    /\ BuildIdle
    /\ SearchIdle
    /\ TreeIdle
    /\ CacheIdle
    /\ UnitIdle

CacheNext == CacheStep

CacheSpec == CacheInit /\ [][CacheNext]_vars

\* An empty output tree and no generation stage so far.
OutInit ==
    /\ PipeIdle
    /\ BuildIdle
    /\ SearchIdle
    /\ TreeIdle
    /\ CacheIdle
    /\ UnitIdle

OutNext == OutStep

OutSpec == OutInit /\ [][OutNext]_vars

\* One leaf about to be processed, with any backing file or none.
TokInit ==
    /\ PipeIdle
    /\ BuildIdle
    /\ SearchIdle
    /\ TreeIdle
    /\ CacheIdle
    /\ OutIdle
    /\ LockIdle
    /\ ChunkIdle
    /\ source_file \in FileTexts \cup {NoBacking, NotUtf8}
    /\ file_content = <<>>
    /\ agent_input = NotCalled
    /\ leaf_pc = "read"

TokNext == TokStep

TokSpec == TokInit /\ [][TokNext]_vars

\* One file about to be chunked: with or without a language for its
\* extension, blank or not, and whatever the two chunkers make of its text.
ChunkInit ==
    /\ PipeIdle
    /\ BuildIdle
    /\ SearchIdle
    /\ TreeIdle
    /\ CacheIdle
    /\ OutIdle
    /\ LockIdle
    /\ TokIdle
    /\ chunk_file \in [lang : BOOLEAN, blank : BOOLEAN,
                        structural : RawChunks \cup {Raises},
                        sentences : RawChunks \cup {Raises}]
    /\ spans = <<>>
    /\ chunks = <<>>
    /\ used_fallback = FALSE
    /\ chunk_pc = "read"

ChunkNext == ChunkStep

ChunkSpec == ChunkInit /\ [][ChunkNext]_vars

\* Two projects with a row each, one launch of each to come, none deleted.
ParProjects == {1, 2}

ParInit ==
    /\ CacheIdle
    /\ UnitIdle
    /\ BuildIdle
    /\ SearchIdle
    /\ TreeIdle
    /\ PipeInit
    /\ project = [p \in Projects |-> IF p \in ParProjects THEN NewRow("analyzing") ELSE NoRow]
    /\ calls = [p \in Projects |-> IF p \in ParProjects THEN 1 ELSE 0]

ParNext ==
    \E p \in Projects, k \in Calls :
        \/ launch_enter(p, k)
        \/ launch_locked(p, k)
        \/ launch_exit(p, k)
        \/ run_stage(p, k)
        \/ finally_enter(p, k)
        \/ finally_locked(p, k)
        \/ finally_exit(p, k)

ParSpec == ParInit /\ [][ParNext]_vars

\* ------------------------------------------------------------------ claims

\* C1: for any interleaving of launches of one project id at most one run of
\* that project is active, and a launch call made while the id is in the running
\* set starts no thread and changes nothing but the count of calls made.
LaunchWhileRunning(p) == calls'[p] < calls[p] /\ p \in RUNNING_PIPELINES

C1_AtMostOneActiveRun ==
    /\ [](\A p \in Projects : Cardinality(ActiveRuns(p)) <= 1)
    /\ [][\A p \in Projects :
            LaunchWhileRunning(p) =>
                /\ ActiveRuns(p)' = ActiveRuns(p)
                /\ UNCHANGED <<RUNNING_PIPELINES, project, deleting, disk, items>>
                /\ \A k \in Calls : Active(p, k) => run'[p][k] = run[p][k]]_vars

C1_Witness ==
    \E p \in Projects, k \in Calls :
        run[p][k].pc = "skipped" /\ Cardinality(ActiveRuns(p)) = 1

\* C2 as stated: a run that found the row at both existence checks of
\* start_project_pipeline has set status generated and the end time when it ends.
C2_Original ==
    \A p \in Projects, k \in Calls :
        (run[p][k].pc = "finally" /\ run[p][k].ok1 /\ run[p][k].ok2) =>
            /\ run[p][k].wroteGenerated
            /\ project[p].wiki_status = "generated"
            /\ project[p].ended

\* C2 amended: every started run ends, and when the row was not deleted before
\* the run ends the run has set status generated and the end time, whatever the
\* index refresh, the site-map build or the generation raised.
C2_ReachesGenerated ==
    \A p \in Projects, k \in Calls :
        (run[p][k].pc = "check1") ~>
            (/\ run[p][k].pc = "finally"
             /\ project[p].exists =>
                   /\ run[p][k].wroteGenerated
                   /\ project[p].wiki_status = "generated"
                   /\ project[p].ended)

C2_Witness ==
    \E p \in Projects, k \in Calls :
        /\ run[p][k].pc = "finally"
        /\ run[p][k].embedding_failed
        /\ ~run[p][k].mapWritten
        /\ run[p][k].wroteGenerated
        /\ project[p].wiki_status = "generated"

\* C3: within one run the index refresh has finished before the site map is
\* persisted, the site map is persisted before any generation item starts, and
\* status generated is written only after every generation item has finished.
Started(p, k) == {l \in Leaves : items[p][k][l] \in {"running", "ok", "failed"}}

C3_StageOrder ==
    \A p \in Projects, k \in Calls :
        /\ run[p][k].mapWritten => run[p][k].refreshed
        /\ Started(p, k) # {} => run[p][k].mapWritten
        /\ run[p][k].wroteGenerated => AllFinished(p, k)

C3_Witness ==
    \E p \in Projects, k \in Calls :
        /\ run[p][k].wroteGenerated
        /\ run[p][k].mapWritten
        /\ \E l \in Leaves : items[p][k][l] = "ok"
        /\ \E l \in Leaves : items[p][k][l] = "failed"

\* C9 as stated: a run whose row was deleted after the index refresh stage and
\* before the site-map build has written no site map and no output file, and
\* the row stays absent, when it ends.
C9_Original ==
    \A p \in Projects, k \in Calls :
        (run[p][k].pc = "finally"
            /\ run[p][k].delAt \in {"check2", "an_get", "an_commit", "an_refresh", "tree"}) =>
            /\ ~run[p][k].mapWritten
            /\ ~run[p][k].outWritten
            /\ project[p] = NoRow

\* C9 amended: a run whose row was deleted after the index refresh stage and
\* before start_analysis_for_project committed status analyzing has written no
\* site map and no output file and has made no status change when it ends.
C9_AbortsBeforeAnalyzing ==
    \A p \in Projects, k \in Calls :
        (run[p][k].pc = "finally"
            /\ run[p][k].delAt \in {"check2", "an_get", "an_commit"}) =>
            /\ ~run[p][k].mapWritten
            /\ ~run[p][k].outWritten
            /\ run[p][k].statusWrites = 0
            /\ Started(p, k) = {}

C9_Witness ==
    \E p \in Projects, k \in Calls :
        /\ run[p][k].pc = "finally"
        /\ run[p][k].delAt = "check2"
        /\ run[p][k].refreshed

\* C4 as stated: after a build that persisted an index pair the metadata holds
\* as many chunk records as the index holds rows, count says so, and record i
\* describes the chunk whose vector is row i.
C4_Original ==
    (build.pc = "done" /\ build.outcome \in {"rebuilt", "empty"}) =>
        /\ Len(meta.items) = Len(faiss.rows)
        /\ meta.count = Len(faiss.rows)
        /\ \A n \in 1..Len(meta.items) :
              n <= Len(faiss.rows) => <<meta.items[n].file, meta.items[n].span>> = faiss.rows[n]

\* C6: for every persisted manifest and every file set the detector answers
\* true exactly when the manifest's paths are the scanned paths and every
\* persisted fingerprint is the fresh fingerprint of its file; an edit of a
\* tree that was up to date (a file added, removed or rewritten) makes it false.
ManifestMatches ==
    /\ Keys(meta.files) = get_project_files
    /\ \A f \in Keys(meta.files) : meta.files[f] = file_sha256(src[f])

C6_UpToDateIffManifestMatches ==
    /\ [](meta.state = "ok" => (embeddings_up_to_date <=> ManifestMatches))
    /\ [][(embeddings_up_to_date /\ src' # src /\ meta' = meta) => ~embeddings_up_to_date']_vars

C6_Witness ==
    /\ meta.state = "ok"
    /\ embeddings_up_to_date
    /\ Keys(meta.files) = Paths
    /\ edits < MaxEdits

\* C7 as stated: an embedding phase that started with the metadata file missing
\* or unparseable (and met no embedding or extraction failure) was told
\* not-up-to-date and has replaced the file by a valid one of its own build.
C7_Original ==
    (build.pc = "done" /\ build.metaAtStart \in {"absent", "corrupt"}
        /\ ~build.batchFailed /\ ~build.raised) =>
        /\ ~build.saidUpToDate
        /\ meta.state = "ok"
        /\ meta.id = build.id

\* C8 as stated: a build that produced no vector ends failed with an error when
\* there were chunk texts and no batch succeeded, and ends ready with vector
\* count zero and an empty metadata file when the tree has nothing to embed.
HasEmbeddable == \E f \in Paths : src[f] # Absent /\ src[f] # Whitespace

C8_Original ==
    (build.pc = "done" /\ build.outcome # "skipped") =>
        /\ (build.new_texts # <<>> /\ build.index_none) =>
              (status.status = "failed" /\ status.error)
        /\ ~HasEmbeddable =>
              /\ meta.state = "ok" /\ meta.items = <<>> /\ meta.count = 0
              /\ status.status = "ready" /\ status.vectors = 0


\* ------------------------------------------------------- claims: SearchSpec
\* C5 (as stated): a load that runs while the project is rebuilt never ends
\* up holding the vector index written by one build together with the
\* metadata written by another: whenever a query reaches its top-k search,
\* the in-memory index and metadata come from the same build.
C5_Original ==
    \A t \in Threads :
        q[t].pc = "s_search" => SEARCHERS.index.id = SEARCHERS.meta.id

\* C10: in every query of the cached searcher, a stale check that finds the
\* whole-second modification time of either file different from the recorded
\* pair is never followed directly by the top-k search, and a query that saw
\* the mismatch reaches its top-k search only after reloading both files.
C10_ReloadBeforeSearch ==
    /\ [](\A t \in Threads :
            (q[t].pc = "s_search" /\ q[t].sawStale) => (q[t].reIndex /\ q[t].reMeta))
    /\ [][\A t \in Threads :
            (q[t].pc = "s_stale" /\ stale) => q'[t].pc # "s_search"]_vars

\* A query saw newer files than those loaded, reloaded them and is about to search.
C10_Witness ==
    \E t \in Threads :
        /\ q[t].pc = "s_search"
        /\ q[t].sawStale
        /\ q[t].reIndex /\ q[t].reMeta
        /\ SEARCHERS.index.id = 2 /\ SEARCHERS.meta.id = 2

\* ------------------------------------------------------- claims: BuildSpec
\* C19 (as stated): with two files of text in the tree, an extraction failure
\* of one file does not abort the build; a build that read its previous
\* metadata ends failed only when there were chunk texts and every embedding
\* batch failed.
C19_Original ==
    (/\ build.pc = "done"
     /\ build.metaAtStart # "corrupt"
     /\ \A f \in Paths : src[f] > Whitespace) =>
        /\ build.raised => build.outcome # "failed"
        /\ build.outcome = "failed" =>
              (build.new_texts # <<>> /\ build.index_none)

\* ------------------------------------------------- claims: Spec and GenSpec
\* C16: whichever leaves raise while they are processed, every leaf that was
\* submitted ends either written or failed, a leaf that ends written has its
\* output file at that moment, and generate_wiki_for_project returns normally.
Submitted(p, k) == {l \in Leaves : items[p][k][l] # "none"}

C16_SiblingsUnaffected ==
    /\ [](\A p \in Projects, k \in Calls :
            (run[p][k].pc = "commit_generated" /\ Submitted(p, k) # {}) =>
                /\ run[p][k].genReturned
                /\ ~run[p][k].raised
                /\ \A l \in Submitted(p, k) : items[p][k][l] \in {"ok", "failed"})
    /\ [][\A p \in Projects, k \in Calls, l \in Leaves :
            (items[p][k][l] = "running" /\ items'[p][k][l] = "ok") =>
                l \in disk'[p].wiki]_vars

C16_Witness ==
    \E p \in Projects, k \in Calls :
        /\ run[p][k].pc = "commit_generated"
        /\ run[p][k].genReturned
        /\ \E l1, l2 \in Leaves :
              /\ items[p][k][l1] = "failed"
              /\ items[p][k][l2] = "ok"
              /\ l2 \in disk[p].wiki

\* C17: the generation stage never has more than MAX_WORKER_AGENTS leaves in
\* process, has submitted exactly the leaves of the site map while the pool
\* works, and has every submitted leaf finished when it returns.
C17_BoundedPool ==
    \A p \in Projects, k \in Calls :
        /\ Cardinality(Running(p, k)) <= MAX_WORKER_AGENTS
        /\ run[p][k].pc = "gen_pool" => Submitted(p, k) = create_wiki_structure(p)
        /\ run[p][k].pc = "commit_generated" =>
              \A l \in Submitted(p, k) : items[p][k][l] \notin {"queued", "running"}

C17_Witness ==
    \E p \in Projects, k \in Calls :
        /\ Cardinality(Running(p, k)) = MAX_WORKER_AGENTS
        /\ \E l \in Leaves : items[p][k][l] = "queued"

\* C18 (as stated): a project whose status was set to generated (its end time
\* is set) keeps status generated, and the status is never failed.
C18_Original ==
    \A p \in Projects :
        project[p].exists =>
            /\ project[p].wiki_status \in {"pending", "analyzing", "generated"}
            /\ project[p].ended => project[p].wiki_status = "generated"

\* C18 amended: the status of a project is always one of pending, analyzing,
\* generated; the pipeline changes it only to analyzing (at the start of an
\* analysis, also from generated when the project is run again) or from
\* analyzing to generated; a run that has set generated leaves it generated.
C18_StatusMoves ==
    /\ [](\A p \in Projects :
            project[p].exists =>
                project[p].wiki_status \in {"pending", "analyzing", "generated"})
    /\ [](\A p \in Projects, k \in Calls :
            (Active(p, k) /\ run[p][k].wroteGenerated /\ project[p].exists) =>
                project[p].wiki_status = "generated")
    /\ [][\A p \in Projects :
            (/\ project[p].exists /\ project'[p].exists
             /\ project'[p].wiki_status # project[p].wiki_status) =>
                \/ project'[p].wiki_status = "analyzing"
                \/ /\ project[p].wiki_status = "analyzing"
                   /\ project'[p].wiki_status = "generated"]_vars

C18_Witness ==
    \E p \in Projects :
        /\ run[p][1].pc = "done"
        /\ run[p][2].pc = "finally"
        /\ run[p][2].wroteGenerated
        /\ run[p][2].raised
        /\ project[p].wiki_status = "generated"

\* ---------------------------------------------- claims: TreeSpec, RerunSpec
\* C20 (as stated): the site map create_wiki_structure returns has "overview"
\* as its first key, and the value of that key is an empty leaf.
C20_Original ==
    wiki_tree # NoTree =>
        /\ wiki_tree[1][1] = "overview"
        /\ wiki_tree[1][2] = EmptyLeaf

\* C15 (as stated): the second run over an unchanged tree does not rebuild
\* the index and its site map is the one of the first run.
C15_Original ==
    (nrefresh = 2 /\ build.pc = "done") =>
        /\ build.outcome = "skipped"
        /\ ncalls = 2 => wiki_tree = prev_tree

\* C15 amended: when the first run persisted the metadata, the second run over
\* the unchanged tree is told up to date, skips the build and leaves both files
\* of the pair as they are; the site maps of two runs are identical.
C15_RerunSkips ==
    /\ []((nrefresh = 2 /\ build.pc = "done" /\ build.metaAtStart = "ok") =>
            (build.outcome = "skipped" /\ meta.id = 1 /\ faiss.id \in {0, 1}))
    /\ [][(nrefresh = 2 /\ build.metaAtStart = "ok" /\ build.pc # "idle") =>
            (faiss' = faiss /\ meta' = meta)]_vars
    /\ [](ncalls = 2 => wiki_tree = prev_tree)

C15_Witness ==
    /\ nrefresh = 2
    /\ build.pc = "done"
    /\ build.outcome = "skipped"
    /\ faiss.exists /\ faiss.id = 1 /\ meta.id = 1
    /\ ncalls = 2
    /\ Len(wiki_tree) = 3

\* ------------------------------------------------------- claims: SearchSpec
\* C14 (as stated): a query that found the vector artifact or the metadata
\* file missing ended with the not-found error, the tool returned an error
\* text, and no searcher is cached for the project.
C14_Original ==
    \A t \in Threads :
        (q[t].pc = "idle" /\ q[t].result = "not_built") =>
            /\ q[t].tool = "error_text"
            /\ ~SEARCHERS.cached

\* C14 amended: a load that finds either file missing raises the not-found
\* error and neither caches a searcher nor changes the cached one; the tool
\* returns an error text for it; and a load step raises only when a file is
\* missing or unparseable at that step, so a query made once a build has
\* persisted the pair goes on to its search.
LoadPcs == {"l_exists", "l_index", "l_meta", "l_mtimes"}

C14_NotBuiltError ==
    /\ [](\A t \in Threads :
            (q[t].pc = "idle" /\ q[t].result # "none") =>
                q[t].tool = IF q[t].result = "results" THEN "text" ELSE "error_text")
    /\ [][\A t \in Threads :
            (/\ q[t].pc = "l_exists" /\ q'[t].pc # "l_exists"
             /\ (~faiss.exists \/ meta.state = "absent")) =>
                /\ q'[t].pc = "idle" /\ q'[t].result = "not_built"
                /\ SEARCHERS' = SEARCHERS]_vars
    /\ [][\A t \in Threads :
            (q[t].pc \in LoadPcs /\ q'[t].pc = "idle") =>
                ~(faiss.exists /\ meta.state = "ok")]_vars

C14_Witness ==
    \E t \in Threads :
        /\ q[t].pc = "idle"
        /\ q[t].prior = "not_built"
        /\ q[t].result = "results"
        /\ q[t].tool = "text"
        /\ SEARCHERS.cached

\* -------------------------------------------------------- claims: CacheSpec
\* C11 (as stated): at most one thread at a time is inside the body of a
\* query (staleness check, reload, search and snippets) of a given project.
InBody(p) == {t \in CacheThreads : th[t].pc \in BodyPcs /\ th[t].p = p}

C11_Original == \A p \in Projects : Cardinality(InBody(p)) <= 1

\* C12 (as stated): a thread working for one project never waits for a lock
\* that a thread working for another project holds.
C12_Original ==
    \A t1, t2 \in CacheThreads :
        ~(/\ th[t1].pc = "g_lock"
          /\ registry_lock = t2
          /\ th[t2].p # th[t1].p)

\* C13: at most one instance is created for a project between two clears of
\* it, a lookup that finds a cached instance returns that instance, and the
\* cached instance of a project is replaced only after it was cleared.
C13_OneInstance ==
    /\ [](\A p \in Projects : made[p] <= 1)
    /\ [][\A t \in CacheThreads :
            (th[t].pc = "g_lookup" /\ th'[t].pc = "s_lock") =>
                (th'[t].inst = registry[th[t].p] /\ registry[th[t].p] # NoInstance)]_vars
    /\ [][\A p \in Projects :
            (registry[p] # NoInstance /\ registry'[p] # registry[p]) =>
                registry'[p] = NoInstance]_vars

\* Two threads made the first queries of a project at the same time and hold
\* the one instance that was created.
C13_Witness ==
    \E p \in Projects :
        /\ made[p] = 1
        /\ clears = MaxClears
        /\ \A t \in CacheThreads :
              th[t].p = p /\ th[t].pc \in {"s_lock"} \cup BodyPcs /\ th[t].inst = registry[p]

\* --------------------------------------------------------- claims: TreeSpec
\* The files the site map is to have as leaves: non-empty, with an allowed
\* extension, not a denied file name, under no denied or dotted directory.
ExpectedLeaves(dir) ==
    IF dir = NoDir THEN {}
    ELSE {<<n>> : n \in {m \in Names : /\ dir[m] = "file"
                                       /\ m \in allowed_exts
                                       /\ m \notin IGNORE_FILES}}
         \cup {<<n, SubTree[1][1]>> :
                  n \in {m \in Names : /\ dir[m] = "dir"
                                       /\ m \notin IGNORE_DIRS
                                       /\ m \notin DotNames}}

\* The leaves of a site map, each as the path of keys that leads to it.
LeafPaths(tree) ==
    {<<tree[i][1]>> : i \in {j \in 1..Len(tree) : tree[j][2] = EmptyLeaf}}
    \cup UNION {{<<tree[i][1], tree[i][2][j][1]>> : j \in 1..Len(tree[i][2])} :
                  i \in 1..Len(tree)}

\* The positions of a site map that hold an entry of the storage directory
\* (the synthetic leaf is the key overview with an empty value).
DirEntries(dir, tree) ==
    {i \in 1..Len(tree) :
        /\ dir # NoDir
        /\ dir[tree[i][1]] # "absent"
        /\ ~(tree[i][1] = "overview" /\ tree[i][2] = EmptyLeaf)}

\* C21 (as stated): the leaves of the site map other than overview are
\* exactly the non-empty files with an allowed extension and a name that is
\* not denied, under no denied or dotted directory; the entries of the
\* directory appear in sorted order; a directory without such a file is no key.
C21_Original ==
    wiki_tree # NoTree =>
        /\ LeafPaths(wiki_tree) \ {<<"overview">>} = ExpectedLeaves(root)
        /\ \A i, j \in DirEntries(root, wiki_tree) :
              i < j => NameRank(wiki_tree[i][1]) < NameRank(wiki_tree[j][1])
        /\ \A i \in DirEntries(root, wiki_tree) : root[wiki_tree[i][1]] # "empty_dir"

\* ---------------------------------------------------------- claims: OutSpec
\* The output paths of the leaves of the site map.
LeafFiles == {md_file(leaf_nodes[i]) : i \in 1..Len(leaf_nodes)}

\* C22 (as stated): after a run in which every generation call succeeded,
\* every leaf of the site map has its text at the path that mirrors it and
\* the output tree holds no other text, no two leaves share an output path or
\* have one path under the other, and the read through the site map returns
\* for every leaf the text that was generated for it.
C22_Original ==
    (out_pc = "read" /\ ~gen_failed) =>
        /\ \A i \in 1..Len(leaf_nodes) :
              wiki_dir[md_file(leaf_nodes[i])] = AgentText(leaf_nodes[i][2])
        /\ \A o \in OutPaths : IsText(wiki_dir[o]) => o \in LeafFiles
        /\ \A i, j \in 1..Len(leaf_nodes) :
              i # j => /\ md_file(leaf_nodes[i]) # md_file(leaf_nodes[j])
                       /\ md_file(leaf_nodes[i]) \notin Ancestors(md_file(leaf_nodes[j]))
        /\ \A i \in 1..Len(leaf_nodes) : readback[i] = AgentText(leaf_nodes[i][2])

\* ---------------------------------------------------------- claims: ParSpec
\* The holder of the lock is inside one of the two with-blocks.
InLockRegion ==
    \/ RUNNING_LOCK = LockIsFree
    \/ /\ RUNNING_LOCK[1] = "launch"
       /\ run[RUNNING_LOCK[2]][RUNNING_LOCK[3]].pc \in {"idle", "check1", "skipped"}
    \/ /\ RUNNING_LOCK[1] = "finally"
       /\ run[RUNNING_LOCK[2]][RUNNING_LOCK[3]].pc \in {"finally", "done"}

\* The holder of the lock can take its next step at once.
HolderCanStep ==
    \A p \in Projects, k \in Calls :
        /\ RUNNING_LOCK = <<"launch", p, k>> =>
              ENABLED (launch_locked(p, k) \/ launch_exit(p, k))
        /\ RUNNING_LOCK = <<"finally", p, k>> =>
              ENABLED (finally_locked(p, k) \/ finally_exit(p, k))

\* C23: the lock is held only inside the with-blocks that test, add to or
\* discard from the running set, and its holder never waits there; no thread
\* holds it during a stage of its run; a launch whose id is not in the set is
\* accepted whatever other ids are in the set, and a launch is refused only
\* when its own id is in the set.
C23_ParallelRuns ==
    /\ [](InLockRegion /\ HolderCanStep)
    /\ [](\A p \in Projects, k \in Calls :
            run[p][k].pc \in StagePcs \ {"check1"} =>
                (RUNNING_LOCK[2] # p \/ RUNNING_LOCK[3] # k))
    /\ [][\A p \in Projects, k \in Calls :
            (run[p][k].pc = "idle" /\ run'[p][k].pc # "idle") =>
                (run'[p][k].pc = "check1" <=> p \notin RUNNING_PIPELINES)]_vars

\* The runs of two projects are in their stages at the same time.
C23_Witness ==
    /\ RUNNING_PIPELINES = ParProjects
    /\ RUNNING_LOCK = LockIsFree
    /\ \A p \in ParProjects : \E k \in Calls : run[p][k].pc \in {"gen_pool"}

\* ---------------------------------------------------------- claims: TokSpec
\* C24: the generation capability is called with the decoding of the first
\* MAX_AGENT_TOKENS tokens of a backing file that has more tokens than that,
\* with the whole text of a backing file that has not, and with the empty
\* text when there is no backing file; it is not called for a file that
\* cannot be read.
C24_TokenCeiling ==
    leaf_pc = "done" =>
        /\ source_file = NoBacking => agent_input = <<>>
        /\ (source_file \in FileTexts /\ Len(encode(source_file)) > MAX_AGENT_TOKENS) =>
              agent_input = decode(SubSeq(encode(source_file), 1, MAX_AGENT_TOKENS))
        /\ (source_file \in FileTexts /\ Len(encode(source_file)) <= MAX_AGENT_TOKENS) =>
              agent_input = source_file
        /\ source_file # NotUtf8

\* A file was cut after its first tokens, which are more letters than tokens.
C24_Witness ==
    /\ leaf_pc = "done"
    /\ source_file \in FileTexts
    /\ Len(encode(source_file)) > MAX_AGENT_TOKENS
    /\ Len(agent_input) > MAX_AGENT_TOKENS
    /\ Len(agent_input) < Len(source_file)

\* -------------------------------------------------------- claims: BuildSpec
\* C25: in whatever order the extraction tasks of a build complete, the
\* merged chunk texts and the merged chunk records have the same length and
\* the text and the record at a position are the same chunk of the same file,
\* and a file whose task was merged has all its chunks in both lists.
C25_MergePaired ==
    /\ Len(build.new_texts) = Len(build.new_metas)
    /\ \A n \in 1..Len(build.new_texts) :
          n <= Len(build.new_metas) =>
              build.new_texts[n] = <<build.new_metas[n].file, build.new_metas[n].span>>
    /\ build.pc = "b_extract" =>
          \A f \in get_project_files \ build.pending :
              \A k \in 1..NumSpans(src[f]) :
                  \E n \in 1..Len(build.new_texts) : build.new_texts[n] = <<f, k>>

\* Both files were merged, the second path of the tree first.
C25_Witness ==
    /\ build.pc = "b_extract"
    /\ build.pending = {}
    /\ Len(build.new_metas) >= 3
    /\ build.new_metas[1].file = "b.md"
    /\ build.new_metas[Len(build.new_metas)].file = "a.py"

\* -------------------------------------------------------- claims: ChunkSpec
\* The structural chunking of the file returned no span: it raised, it gave no
\* chunk, or every chunk it gave was blank or above the token ceiling.
StructuralEmpty ==
    \/ chunk_file.structural = Raises
    \/ \A n \in 1..Len(chunk_file.structural) : chunk_file.structural[n] # "ok"

\* C26: for a file that is not blank the sentence chunking is used exactly
\* when the extension has no language or the structural chunking returned no
\* span (it raised, or all its chunks were dropped); the chunks returned for a
\* file all come from one strategy; a blank file yields no chunk and neither
\* chunker is used for it.
C26_FallbackIffNoSpans ==
    /\ (chunk_pc \in {"done", "raised"} /\ ~chunk_file.blank) =>
          (used_fallback <=> (~chunk_file.lang \/ StructuralEmpty))
    /\ chunk_pc = "done" =>
          /\ \A i, j \in 1..Len(chunks) : chunks[i].by = chunks[j].by
          /\ \A i \in 1..Len(chunks) :
                chunks[i].by = IF used_fallback THEN "sentence" ELSE "structural"
          /\ chunk_file.blank => (chunks = <<>> /\ ~used_fallback)

\* Every chunk of the structural chunking was above the ceiling and the file
\* was chunked by sentences.
C26_Witness ==
    /\ chunk_pc = "done"
    /\ chunk_file.lang
    /\ chunk_file.structural # Raises
    /\ Len(chunk_file.structural) = MaxSpans
    /\ \A n \in 1..Len(chunk_file.structural) : chunk_file.structural[n] = "big"
    /\ used_fallback
    /\ Len(chunks) = MaxSpans

\* ------------------------------------------------- claims: the running set
\* The run has left start_project_pipeline and only its finally block is
\* left to do.
Ending(p, k) == run[p][k].pc = "finally"

\* C27: a project id is in the running set exactly while a launched run of it
\* has not ended; the step that ends a run (after a normal return, an abort on
\* a missing project or an exception) takes the id out of the set, and a
\* launch made when no run of the project is live is accepted and starts a
\* new run.
C27_RunningSetExact ==
    /\ [](\A p \in Projects : p \in RUNNING_PIPELINES <=> ActiveRuns(p) # {})
    /\ [][\A p \in Projects, k \in Calls :
            /\ (Ending(p, k) /\ ~Active(p, k)') => p \notin RUNNING_PIPELINES'
            /\ (ActiveRuns(p) = {} /\ calls'[p] < calls[p]) =>
                  (run'[p][k].pc = "check1" <=> NextCall(p, k))]_vars

\* A run of the project has ended and the launch made after it was accepted:
\* its run is live and the id is in the set again.
C27_Witness ==
    \E p \in Projects, k \in Calls :
        /\ run[p][k].pc = "done"
        /\ k + 1 \in Calls
        /\ Active(p, k + 1)
        /\ p \in RUNNING_PIPELINES

\* ------------------------------------------- claims: queries after a rebuild
\* A build has written its pair, no build is under way and no query is in
\* flight: what the cached searcher holds is what the next query starts from.
RebuiltAndQuiet ==
    /\ build.pc \in {"idle", "done"}
    /\ faiss.exists
    /\ meta.state = "ok"
    /\ faiss.id = meta.id
    /\ \A t \in Threads : q[t].pc = "idle"

\* C28 (as stated): once a rebuild has completed, a query that starts
\* afterwards is answered from the rebuilt pair: the cached searcher either
\* holds the index and the metadata of that pair or its recorded modification
\* times differ from those of the files, so that the query reloads them.
C28_Original ==
    (RebuiltAndQuiet /\ SEARCHERS.cached) =>
        \/ stale
        \/ SEARCHERS.index.id = faiss.id /\ SEARCHERS.meta.id = meta.id

\* ------------------------------------------ claims: a build without a batch
\* The positions of the branch taken when the tree has no chunk text at all.
EmptyPcs == {"b_unlink", "b_empty_meta", "b_empty_status"}

\* The build is over and it failed because no embedding batch succeeded.
FailedWithoutBatch ==
    /\ build.pc = "done"
    /\ build.outcome = "failed"
    /\ build.new_texts # <<>>
    /\ build.batchFailed
    /\ build.index_none
    /\ ~build.raised

\* C29: a build in which no embedding batch has succeeded changes neither the
\* vector artifact nor the metadata file nor the answer of the change
\* detector at any of its steps (the branch for a tree without chunk text
\* aside); when it has failed for want of a batch the artifacts are not its
\* own, the status is failed with an error, and the detector still says that
\* a rebuild is needed.
C29_FailedBuildKeepsPair ==
    /\ [][(build.pc \notin ({"idle", "done"} \cup EmptyPcs) /\ build'.index_none) =>
            /\ faiss' = faiss
            /\ meta' = meta
            /\ src' = src
            /\ embeddings_up_to_date' = embeddings_up_to_date]_vars
    /\ [](FailedWithoutBatch =>
            /\ status.status = "failed" /\ status.error
            /\ faiss.id # build.id
            /\ meta.id # build.id
            /\ meta.state = build.metaAtStart
            /\ ~embeddings_up_to_date)

\* A second build failed for want of a batch and the pair of the first build
\* is still in place.
C29_Witness ==
    /\ FailedWithoutBatch
    /\ faiss.exists
    /\ meta.state = "ok"
    /\ faiss.id = 1 /\ meta.id = 1
    /\ build.id = 2
    /\ status.status = "failed"

\* ------------------------------------------------- claims: runs of a deleted
\* delete_project has deleted the row and gone through its three rmtree calls.
Deleted(p) == deleting[p] = 4

\* C30 (as stated): once delete_project has removed the record and the
\* directories of a project, no step of a run of that project still in
\* flight creates the analysis directory or the site-map file in it, the
\* output directory or a page in it.
C30_Original ==
    [][\A p \in Projects :
          Deleted(p) =>
              /\ disk'[p].analysis => disk[p].analysis
              /\ disk'[p].tree => disk[p].tree
              /\ disk'[p].wikidir => disk[p].wikidir
              /\ disk'[p].wiki \subseteq disk[p].wiki]_vars

====
